---- MODULE Spec2Model ----
(***************************************************************************)
(* Model of the stat block engine of the D&D summons assistant            *)
(* (src/unnamed/part_000, lines 3091-4359): copy resolution, variant      *)
(* expansion, the modification interpreter and the display entry point.   *)
(*                                                                         *)
(* JavaScript objects and arrays live in a heap of cells addressed by     *)
(* references, so that sharing between an input and a result (a pushed    *)
(* item, a shallow copy) is visible to the model exactly as it is to the  *)
(* program.                                                                *)
(***************************************************************************)
EXTENDS Integers, Sequences, FiniteSets, TLC

VARIABLES heap,       \* the object store: Seq of cells, address = index
          creatures,  \* getAllCreatures(): Seq of references to stored records
          templates,  \* template objects handed to applyTemplate
          call,       \* the last call: operation and its arguments
          ret,        \* what the last call returned
          raised,     \* TRUE when the last call threw
          pre         \* views of the stored records and templates before the last call

vars == <<heap, creatures, templates, call, ret, raised, pre>>

----------------------------------------------------------------------------
(* JavaScript values.  A string is a sequence of tokens (the maximal runs  *)
(* between separators), so that "a.b".split('.') and a global text         *)
(* replacement have something to work on.                                  *)

Undef == [k |-> "undef"]
Null == [k |-> "null"]
Str(s) == [k |-> "str", s |-> s]
Num(n) == [k |-> "num", n |-> n]
Bool(b) == [k |-> "bool", b |-> b]
Ref(a) == [k |-> "ref", a |-> a]

W(w) == Str(<<w>>)

ObjCell(keys, el) == [k |-> "obj", keys |-> keys, el |-> el]
ArrCell(el) == [k |-> "arr", keys |-> <<>>, el |-> el]

IsRef(v) == v.k = "ref"
IsArray(h, v) == v.k = "ref" /\ h[v.a].k = "arr"
IsPlainObject(h, v) == v.k = "ref" /\ h[v.a].k = "obj"

\* typeof v === 'object' (true of null, arrays and plain objects)
TypeofObject(v) == v.k \in {"ref", "null"}

\* ToBoolean
Truthy(v) ==
    CASE v.k = "undef" -> FALSE
      [] v.k = "null" -> FALSE
      [] v.k = "str" -> v.s # <<>>
      [] v.k = "num" -> v.n # 0
      [] v.k = "bool" -> v.b
      [] OTHER -> TRUE

SeqRange(s) == {s[i] : i \in 1..Len(s)}

\* v named and used (const r = v; ...)
Bind(v, F(_)) == F(v)

\* position of the first element of s satisfying Test, 0 when there is none
FirstIndex(s, Test(_)) ==
    IF \E i \in 1..Len(s) : Test(s[i])
    THEN CHOOSE i \in 1..Len(s) : Test(s[i]) /\ \A j \in 1..(i - 1) : ~Test(s[j])
    ELSE 0

RECURSIVE SelectIdx(_, _, _)
SelectIdx(s, Keep(_), i) ==
    IF i > Len(s) THEN <<>>
    ELSE (IF Keep(i) THEN <<s[i]>> ELSE <<>>) \o SelectIdx(s, Keep, i + 1)

\* array index named by a property key ("0" is the first element), 0 if none
IndexKeys == <<"0", "1", "2", "3", "4", "5", "6", "7">>
KeyIndex(key) == FirstIndex(IndexKeys, LAMBDA x : x = key)

\* v[key] for a value that is not null or undefined
Pick(el, i) == IF i \in 1..Len(el) THEN el[i] ELSE Undef
GetProp(h, v, key) ==
    IF v.k # "ref" THEN Undef
    ELSE IF h[v.a].k = "obj" THEN Pick(h[v.a].el, FirstIndex(h[v.a].keys, LAMBDA x : x = key))
    ELSE Pick(h[v.a].el, KeyIndex(key))

\* own enumerable keys in Object.entries order
OwnKeys(h, v) ==
    IF v.k # "ref" THEN <<>>
    ELSE IF h[v.a].k = "obj" THEN h[v.a].keys ELSE SubSeq(IndexKeys, 1, Len(h[v.a].el))

\* the cell obtained by o[key] = val
ObjWith(c, i, key, val) ==
    IF i = 0 THEN ObjCell(Append(c.keys, key), Append(c.el, val))
    ELSE ObjCell(c.keys, [c.el EXCEPT ![i] = val])
ArrWith(c, i, val) ==
    IF i \in 1..Len(c.el) THEN ArrCell([c.el EXCEPT ![i] = val])
    ELSE IF i = Len(c.el) + 1 THEN ArrCell(Append(c.el, val))
    ELSE c
CellWith(c, key, val) ==
    IF c.k = "obj" THEN ObjWith(c, FirstIndex(c.keys, LAMBDA x : x = key), key, val)
    ELSE ArrWith(c, KeyIndex(key), val)

\* heap after v[key] = val, v a reference
PutProp(h, v, key, val) == [h EXCEPT ![v.a] = CellWith(h[v.a], key, val)]

\* a fresh cell
Alloc(h, cell) == [h |-> Append(h, cell), v |-> Ref(Len(h) + 1)]

----------------------------------------------------------------------------
(* Structural view of a value: what a deep comparison sees.  Objects are   *)
(* compared key by key whatever the order of their keys.                   *)

RECURSIVE View(_, _)
View(h, v) ==
    IF v.k # "ref" THEN v
    ELSE IF h[v.a].k = "obj"
    THEN [k |-> "obj",
          o |-> [key \in SeqRange(h[v.a].keys) |->
                   View(h, h[v.a].el[FirstIndex(h[v.a].keys, LAMBDA x : x = key)])]]
    ELSE [k |-> "arr", e |-> [i \in 1..Len(h[v.a].el) |-> View(h, h[v.a].el[i])]]

\* the sequences of ss one after another
RECURSIVE Flat(_)
Flat(ss) == IF ss = <<>> THEN <<>> ELSE Head(ss) \o Flat(Tail(ss))

\* the addresses met on a depth-first walk from the values vs, a shared
\* cell as often as it is met
RECURSIVE Walk(_, _)
Walk(h, vs) ==
    Flat(<<>> \o [i \in 1..Len(vs) |->
                    IF vs[i].k = "ref" THEN <<vs[i].a>> \o Walk(h, h[vs[i].a].el) ELSE <<>>])

\* s without the elements that it holds earlier
FirstMet(s) ==
    Bind(SelectSeq(<<>> \o [i \in 1..Len(s) |-> <<s[i], i>>],
                   LAMBDA p : \A j \in 1..(p[2] - 1) : s[j] # p[1]),
         LAMBDA met : <<>> \o [i \in 1..Len(met) |-> met[i][1]])

\* addresses reachable from a sequence of values, in depth-first order,
\* added to those already seen
Reach(h, vs, seen) == FirstMet(seen \o Walk(h, vs))

\* the cells two values share
Shared(h, v, w) == SeqRange(Reach(h, <<v>>, <<>>)) \cap SeqRange(Reach(h, <<w>>, <<>>))

----------------------------------------------------------------------------
(* Literals: how the records of the store are written down, and their      *)
(* construction in the heap.                                                *)

O(pairs) == [k |-> "lobj", p |-> pairs]
A(elems) == [k |-> "larr", e |-> elems]

\* A tree of cells is laid out as a block: the blocks of the children in
\* order, then the cell of the root, with references counted from the
\* start of the block.
\* the cell with its references moved by off
Shift(cell, off) ==
    [cell EXCEPT !.el = <<>> \o [j \in 1..Len(@) |->
                                   IF @[j].k = "ref" THEN Ref(@[j].a + off) ELSE @[j]]]
ShiftAll(cells, off) == <<>> \o [j \in 1..Len(cells) |-> Shift(cells[j], off)]

\* cells before the block of child i, the blocks side by side, and the
\* values of the children in the root cell
BlockStart(blocks, i) == Len(Flat(SubSeq(blocks, 1, i - 1)))
Blocks(blocks) ==
    Flat(<<>> \o [i \in 1..Len(blocks) |-> ShiftAll(blocks[i], BlockStart(blocks, i))])
BlockRefs(blocks, vals) ==
    <<>> \o [i \in 1..Len(vals) |->
               IF blocks[i] = <<>> THEN vals[i] ELSE Ref(BlockStart(blocks, i) + Len(blocks[i]))]

\* the block of a tree: the blocks of its children, then its root cell
Block(blocks, root) == IF Len(blocks) = 0 THEN <<root>> ELSE Blocks(blocks) \o <<root>>

\* the block appended to the heap, and the reference to its root
Placed(h, cells) == [h |-> h \o ShiftAll(cells, Len(h)), v |-> Ref(Len(h) + Len(cells))]

RECURSIVE LoadCells(_), LoadSeq(_, _, _)
LoadCells(t) ==
    IF t.k = "lobj"
    THEN LET blocks == <<>> \o [i \in 1..Len(t.p) |-> LoadCells(t.p[i][2])]
         IN Block(blocks, ObjCell(<<>> \o [i \in 1..Len(t.p) |-> t.p[i][1]],
                                  BlockRefs(blocks, [i \in 1..Len(t.p) |-> t.p[i][2]])))
    ELSE IF t.k = "larr"
    THEN LET blocks == <<>> \o [i \in 1..Len(t.e) |-> LoadCells(t.e[i])]
         IN Block(blocks, ArrCell(BlockRefs(blocks, t.e)))
    ELSE <<>>
Load(h, t) == IF t.k \in {"lobj", "larr"} THEN Placed(h, LoadCells(t)) ELSE [h |-> h, v |-> t]
LoadSeq(h, ts, acc) ==
    IF Len(acc) = Len(ts) THEN [h |-> h, vs |-> acc]
    ELSE Bind(Load(h, ts[Len(acc) + 1]), LAMBDA r : LoadSeq(r.h, ts, Append(acc, r.v)))

----------------------------------------------------------------------------
(* JSON.parse(JSON.stringify(v)): a structural copy in fresh cells.  A key *)
(* whose value is undefined is dropped, an undefined array element becomes *)
(* null.                                                                    *)

RECURSIVE CopyCells(_, _)
CopyCells(h, v) ==
    IF v.k # "ref" THEN <<>>
    ELSE IF h[v.a].k = "obj"
    THEN LET vals == SelectIdx(h[v.a].el, LAMBDA i : h[v.a].el[i].k # "undef", 1)
             blocks == <<>> \o [i \in 1..Len(vals) |-> CopyCells(h, vals[i])]
         IN Block(blocks, ObjCell(SelectIdx(h[v.a].keys,
                                            LAMBDA i : h[v.a].el[i].k # "undef", 1),
                                  BlockRefs(blocks, vals)))
    ELSE LET vals == <<>> \o [i \in 1..Len(h[v.a].el) |->
                                IF h[v.a].el[i].k = "undef" THEN Null ELSE h[v.a].el[i]]
             blocks == <<>> \o [i \in 1..Len(vals) |-> CopyCells(h, vals[i])]
         IN Block(blocks, ArrCell(BlockRefs(blocks, vals)))
DeepCopy(h, v) == IF v.k # "ref" THEN [h |-> h, v |-> v] ELSE Placed(h, CopyCells(h, v))

\* {...v}: a new object with the own properties of v, values shared
Spread(h, v) ==
    IF v.k # "ref" THEN ObjCell(<<>>, <<>>)
    ELSE ObjCell(OwnKeys(h, v), h[v.a].el)

\* Object.assign(target, src) on cells
RECURSIVE AssignCell(_, _, _)
AssignCell(c, keys, vals) ==
    IF keys = <<>> THEN c
    ELSE AssignCell(CellWith(c, Head(keys), Head(vals)), Tail(keys), Tail(vals))

----------------------------------------------------------------------------
(* Collection of unreachable cells.  After a call only the cells reachable *)
(* from the store, the templates and the returned value remain, renumbered *)
(* in depth-first order from those roots; sharing is preserved.            *)

Renumber(order, v) ==
    IF v.k = "ref" THEN Ref(FirstIndex(order, LAMBDA a : a = v.a)) ELSE v

Renumbered(h, roots, order) ==
    [h |-> [i \in 1..Len(order) |->
              [h[order[i]] EXCEPT !.el = [j \in 1..Len(@) |-> Renumber(order, @[j])]]],
     roots |-> [i \in 1..Len(roots) |-> Renumber(order, roots[i])]]

Collect(h, roots) == Renumbered(h, roots, Reach(h, roots, <<>>))

----------------------------------------------------------------------------
(* The modification interpreter.  A step yields the heap it leaves and     *)
(* whether it threw; the code is an ES module, hence strict: assigning a   *)
(* property of a primitive, or reading one of null or undefined, throws.   *)

Ok(h) == [h |-> h, err |-> FALSE]
Throw(h) == [h |-> h, err |-> TRUE]

Nullish(v) == v.k \in {"undef", "null"}
Elems(h, v) == h[v.a].el

\* item && typeof item === 'object' ? item.name : item
ItemName(h, item) == IF IsRef(item) THEN GetProp(h, item, "name") ELSE item

\* Array.isArray(x) ? x : [x], as a sequence of values
AsList(h, x) == IF IsArray(h, x) THEN Elems(h, x) ELSE <<x>>

\* String(v) as tokens, for the primitives the store holds
Tokens(v) ==
    CASE v.k = "str" -> v.s
      [] v.k = "num" -> <<ToString(v.n)>>
      [] v.k = "undef" -> <<"undefined">>
      [] v.k = "null" -> <<"null">>
      [] v.k = "bool" -> <<IF v.b THEN "true" ELSE "false">>
      [] OTHER -> <<"[object", "Object]">>

\* text.replace(new RegExp(pattern, 'g'), with) for a pattern that is one
\* literal token: every occurrence of the token is replaced
RECURSIVE ReplaceTokens(_, _, _)
ReplaceTokens(s, pat, with) ==
    IF s = <<>> THEN <<>>
    ELSE (IF Head(s) = pat THEN with ELSE <<Head(s)>>) \o ReplaceTokens(Tail(s), pat, with)

ReplaceText(v, mod_replace, mod_with) ==
    IF mod_replace.k = "str" /\ Len(mod_replace.s) = 1
    THEN Str(ReplaceTokens(v.s, mod_replace.s[1], Tokens(mod_with)))
    ELSE v

\* replaceInObject (lines 3395-3412) on a private copy: strings are
\* replaced, arrays and objects are walked
RECURSIVE replaceInObject(_, _, _, _), replaceInKeys(_, _, _, _, _), replaceInValue(_, _, _, _, _, _)
replaceInObject(h, obj, mod_replace, mod_with) ==
    replaceInKeys(h, obj, OwnKeys(h, obj), mod_replace, mod_with)
replaceInValue(h, obj, key, v, mod_replace, mod_with) ==
    IF v.k = "str" THEN PutProp(h, obj, key, ReplaceText(v, mod_replace, mod_with))
    ELSE IF IsRef(v) THEN replaceInObject(h, v, mod_replace, mod_with)
    ELSE h
replaceInKeys(h, obj, keys, mod_replace, mod_with) ==
    IF keys = <<>> THEN h
    ELSE replaceInKeys(replaceInValue(h, obj, Head(keys), GetProp(h, obj, Head(keys)),
                                      mod_replace, mod_with),
                       obj, Tail(keys), mod_replace, mod_with)

\* the item => ... callback of the replaceTxt map (lines 3387-3418)
RECURSIVE replaceTxtItems(_, _, _, _, _)
replaceTxtItems(h, items, acc, mod_replace, mod_with) ==
    IF Len(acc) = Len(items) THEN [h |-> h, vs |-> acc]
    ELSE Bind(items[Len(acc) + 1], LAMBDA item :
         IF item.k = "str"
         THEN replaceTxtItems(h, items, Append(acc, ReplaceText(item, mod_replace, mod_with)),
                              mod_replace, mod_with)
         ELSE IF IsRef(item)
         THEN Bind(DeepCopy(h, item), LAMBDA c :
                replaceTxtItems(replaceInObject(c.h, c.v, mod_replace, mod_with), items,
                                Append(acc, c.v), mod_replace, mod_with))
         ELSE replaceTxtItems(h, items, Append(acc, item), mod_replace, mod_with))

\* does the array hold an item with the name of item (lines 3349-3352)
ExistsIn(h, arr, item) ==
    \E i \in 1..Len(Elems(h, arr)) : ItemName(h, Elems(h, arr)[i]) = ItemName(h, item)

\* every item is added, present or not
appendIfNotExists_Always(h, arr, items) == [h EXCEPT ![arr.a].el = @ \o items]

\* appendIfNotExistsArr: the for loop of lines 3347-3357
RECURSIVE appendIfNotExists(_, _, _)
appendIfNotExists(h, arr, items) ==
    IF items = <<>> THEN h
    ELSE appendIfNotExists(IF ExistsIn(h, arr, Head(items)) THEN h
                           ELSE [h EXCEPT ![arr.a].el = Append(@, Head(items))],
                           arr, Tail(items))

ArrayModes == {W("appendArr"), W("prependArr"), W("appendIfNotExistsArr")}

\* removeArr: the filter of lines 3319-3328
removeArr(h0, monster, property, cur, names) ==
    Bind(Alloc(h0, ArrCell(SelectIdx(Elems(h0, cur),
                                     LAMBDA i : IF IsArray(h0, names)
                                                THEN \A j \in 1..Len(Elems(h0, names)) :
                                                        Elems(h0, names)[j] # ItemName(h0, Elems(h0, cur)[i])
                                                ELSE ItemName(h0, Elems(h0, cur)[i]) # names,
                                     1))),
         LAMBDA a : Ok(PutProp(a.h, monster, property, a.v)))

\* renameArr: lines 3372-3382, el the elements of the array
renameArr(h0, el, renames) ==
    IF Nullish(renames) /\ \E i \in 1..Len(el) : IsRef(el[i]) THEN Throw(h0)
    ELSE Bind(FirstIndex(el, LAMBDA item : IsRef(item)
                                           /\ GetProp(h0, item, "name") = GetProp(h0, renames, "rename")),
              LAMBDA index :
                IF index # 0 /\ Truthy(GetProp(h0, el[index], "name"))
                THEN Ok(PutProp(h0, el[index], "name", GetProp(h0, renames, "with")))
                ELSE Ok(h0))

\* replaceTxt: lines 3384-3420
replaceTxt(h0, monster, property, cur, mod) ==
    Bind(replaceTxtItems(h0, Elems(h0, cur), <<>>,
                         GetProp(h0, mod, "replace"), GetProp(h0, mod, "with")),
         LAMBDA r : Bind(Alloc(r.h, ArrCell(r.vs)),
                         LAMBDA a : Ok(PutProp(a.h, monster, property, a.v))))

\* the switch on mod.mode of lines 3317-3421, cur the target array
applyMode(h0, monster, property, mod, mode, cur, items) ==
    IF ~IsArray(h0, cur) THEN Ok(h0)
    ELSE
    CASE mode = W("removeArr") -> removeArr(h0, monster, property, cur, GetProp(h0, mod, "names"))
      [] mode = W("appendArr") -> Ok([h0 EXCEPT ![cur.a].el = @ \o AsList(h0, items)])
      [] mode = W("appendIfNotExistsArr") -> Ok(appendIfNotExists(h0, cur, AsList(h0, items)))
      [] mode = W("prependArr") -> Ok([h0 EXCEPT ![cur.a].el = AsList(h0, items) \o @])
      [] mode = W("renameArr") -> renameArr(h0, Elems(h0, cur), GetProp(h0, mod, "renames"))
      [] mode = W("replaceTxt") -> replaceTxt(h0, monster, property, cur, mod)
      [] OTHER -> Ok(h0)

\* monster[property] = [] (line 3308)
PutFresh(h, monster, property) ==
    Bind(Alloc(h, ArrCell(<<>>)), LAMBDA fresh : PutProp(fresh.h, monster, property, fresh.v))

\* the heap after lines 3304-3314: nothing to do when the property is
\* absent and the mode adds nothing
applyArrayModWith(h, monster, property, mod, mode, absent) ==
    IF absent /\ mode \notin ArrayModes THEN Ok(h)
    ELSE Bind(IF absent THEN PutFresh(h, monster, property) ELSE h,
              LAMBDA h0 : applyMode(h0, monster, property, mod, mode,
                                    GetProp(h0, monster, property), GetProp(h0, mod, "items")))

\* one mod of an array of modifications: the body of the loop of lines
\* 3303-3422, for the target property of the monster
applyArrayMod(h, monster, property, mod) ==
    IF Nullish(mod) THEN Throw(h)
    ELSE applyArrayModWith(h, monster, property, mod, GetProp(h, mod, "mode"),
                           ~Truthy(GetProp(h, monster, property)))

RECURSIVE applyArrayMods(_, _, _, _)
applyArrayMods(h, monster, property, mods) ==
    IF mods = <<>> THEN Ok(h)
    ELSE Bind(applyArrayMod(h, monster, property, Head(mods)),
              LAMBDA r : IF r.err THEN r ELSE applyArrayMods(r.h, monster, property, Tail(mods)))

\* setProp: the navigation of lines 3285-3297 along the path props
RECURSIVE setPropPath(_, _, _, _), setPropNext(_, _, _, _, _)
setPropNext(h, target, props, value, nxt) ==
    IF Truthy(nxt) THEN setPropPath(h, nxt, Tail(props), value)
    ELSE Bind(Alloc(h, ObjCell(<<>>, <<>>)),
              LAMBDA a : setPropPath(PutProp(a.h, target, props[1], a.v), a.v, Tail(props), value))
setPropPath(h, target, props, value) ==
    IF ~IsRef(target) THEN Throw(h)
    ELSE IF Len(props) = 1 THEN Ok(PutProp(h, target, props[1], value))
    ELSE setPropNext(h, target, props, value, GetProp(h, target, props[1]))

\* replaceArr (lines 3272-3282): findIndex reads item.name of every item up
\* to the first hit, and throws on a null or undefined item
replaceArr(h, cur, replace, items) ==
    IF ~IsArray(h, cur) THEN Ok(h)
    ELSE IF \E i \in 1..Len(Elems(h, cur)) :
               /\ Nullish(Elems(h, cur)[i])
               /\ \A j \in 1..(i - 1) :
                    /\ GetProp(h, Elems(h, cur)[j], "name") # replace
                    /\ Elems(h, cur)[j] # replace
    THEN Throw(h)
    ELSE Bind(FirstIndex(Elems(h, cur),
                         LAMBDA item : GetProp(h, item, "name") = replace \/ item = replace),
              LAMBDA index : IF index = 0 THEN Ok(h)
                             ELSE Ok([h EXCEPT ![cur.a].el[index] = items]))

\* setProp (lines 3283-3298)
setProp(h, monster, prop, value) ==
    IF prop.k # "str" THEN Throw(h)
    ELSE setPropPath(h, monster, IF prop.s = <<>> THEN <<"">> ELSE prop.s, value)

applySingleModWith(h, monster, property, modifications, mode) ==
    CASE mode = W("replaceArr") ->
           replaceArr(h, GetProp(h, monster, property), GetProp(h, modifications, "replace"),
                      GetProp(h, modifications, "items"))
      [] mode = W("setProp") ->
           setProp(h, monster, GetProp(h, modifications, "prop"), GetProp(h, modifications, "value"))
      [] OTHER -> Ok(h)

\* a modification that is not an array (lines 3270-3300)
applySingleMod(h, monster, property, modifications) ==
    IF Nullish(modifications) THEN Throw(h)
    ELSE applySingleModWith(h, monster, property, modifications, GetProp(h, modifications, "mode"))

----------------------------------------------------------------------------
(* Root level modifications (property key "_")                             *)

\* is the token sequence part a contiguous part of whole (String.includes)
Includes(whole, part) ==
    \E i \in 0..(Len(whole) - Len(part)) : SubSeq(whole, i + 1, i + Len(part)) = part

\* the sense as the string that is added (lines 3446-3449)
SenseText(h, sense) ==
    IF sense.k = "str" THEN sense
    ELSE Str(Tokens(GetProp(h, sense, "type")) \o Tokens(GetProp(h, sense, "range")) \o <<"ft.">>)

addSenseTo(h, senses, sense, text) ==
    IF ~(sense.k = "str" \/ (IsRef(sense) /\ Truthy(GetProp(h, sense, "type")))) THEN Ok(h)
    ELSE IF IsArray(h, senses)
    THEN IF \E i \in 1..Len(Elems(h, senses)) : Elems(h, senses)[i] = text THEN Ok(h)
         ELSE Ok([h EXCEPT ![senses.a].el = Append(@, text)])
    ELSE IF senses.k = "str" /\ Includes(senses.s, text.s) THEN Ok(h)
    ELSE Throw(h)

\* one sense of addSenses against monster.senses (lines 3444-3456)
addSense(h, monster, sense) ==
    addSenseTo(h, GetProp(h, monster, "senses"), sense, SenseText(h, sense))

RECURSIVE addSenses(_, _, _)
addSenses(h, monster, toAdd) ==
    IF toAdd = <<>> THEN Ok(h)
    ELSE Bind(addSense(h, monster, Head(toAdd)),
              LAMBDA r : IF r.err THEN r ELSE addSenses(r.h, monster, Tail(toAdd)))

\* value > 0 ? `+${value}` : `${value}`
SkillText(value) ==
    IF value.k = "num" /\ value.n > 0 THEN W("+" \o ToString(value.n)) ELSE Str(Tokens(value))

\* the loop of addSkills (lines 3465-3469) over the entries of mod.skills
RECURSIVE addSkills(_, _, _, _), addSkillTo(_, _, _, _, _)
addSkillTo(h, monster, skills, keys, skill) ==
    IF Truthy(GetProp(h, skill, Head(keys))) THEN addSkills(h, monster, skills, Tail(keys))
    ELSE IF ~IsRef(skill) THEN Throw(h)
    ELSE addSkills(PutProp(h, skill, Head(keys), SkillText(GetProp(h, skills, Head(keys)))),
                   monster, skills, Tail(keys))
addSkills(h, monster, skills, keys) ==
    IF keys = <<>> THEN Ok(h)
    ELSE addSkillTo(h, monster, skills, keys, GetProp(h, monster, "skill"))

\* sizeOrder[size] of line 3474; -1 stands for undefined
sizeOrder(size) ==
    CASE size = W("T") -> 0
      [] size = W("S") -> 1
      [] size = W("M") -> 2
      [] size = W("L") -> 3
      [] size = W("H") -> 4
      [] size = W("G") -> 5
      [] OTHER -> -1

\* sizeOrder[x] || dflt
sizeOrderOr(size, dflt) == IF sizeOrder(size) \in {-1, 0} THEN dflt ELSE sizeOrder(size)

\* if (!monster[key]) monster[key] = cell (lines 3437, 3460)
PutDefault(h, monster, key, cell) ==
    IF Truthy(GetProp(h, monster, key)) THEN h
    ELSE Bind(Alloc(h, cell), LAMBDA a : PutProp(a.h, monster, key, a.v))

addSkillsMod(h0, monster, skills) ==
    IF Nullish(skills) THEN Throw(h0) ELSE addSkills(h0, monster, skills, OwnKeys(h0, skills))

\* maxSize (lines 3472-3490)
maxSize(h, monster, max, maxSizeValue, size) ==
    IF IsArray(h, size)
    THEN Bind(SelectIdx(Elems(h, size),
                        LAMBDA i : sizeOrderOr(Elems(h, size)[i], 0) <= maxSizeValue, 1),
              LAMBDA kept :
                Bind(Alloc(h, ArrCell(IF kept = <<>> THEN <<max>> ELSE kept)),
                     LAMBDA a : Ok(PutProp(a.h, monster, "size", a.v))))
    ELSE IF size.k = "str" /\ sizeOrderOr(size, 0) > maxSizeValue
    THEN Ok(PutProp(h, monster, "size", max))
    ELSE Ok(h)

applyRootModWith(h, monster, mod, mode) ==
    CASE mode = W("addSenses") ->
           Bind(PutDefault(h, monster, "senses", ArrCell(<<>>)),
                LAMBDA h0 : addSenses(h0, monster, AsList(h0, GetProp(h0, mod, "senses"))))
      [] mode = W("addSkills") ->
           Bind(PutDefault(h, monster, "skill", ObjCell(<<>>, <<>>)),
                LAMBDA h0 : addSkillsMod(h0, monster, GetProp(h0, mod, "skills")))
      [] mode = W("maxSize") ->
           maxSize(h, monster, GetProp(h, mod, "max"), sizeOrderOr(GetProp(h, mod, "max"), 5),
                   GetProp(h, monster, "size"))
      [] OTHER -> Ok(h)

\* one root modification: the body of the loop of lines 3434-3492
applyRootMod(h, monster, mod) ==
    IF Nullish(mod) THEN Throw(h)
    ELSE applyRootModWith(h, monster, mod, GetProp(h, mod, "mode"))

RECURSIVE applyRootMods(_, _, _)
applyRootMods(h, monster, mods) ==
    IF mods = <<>> THEN Ok(h)
    ELSE Bind(applyRootMod(h, monster, Head(mods)),
              LAMBDA r : IF r.err THEN r ELSE applyRootMods(r.h, monster, Tail(mods)))

applyRootModifications(h, monster, mods) ==
    IF ~IsArray(h, mods) THEN Ok(h) ELSE applyRootMods(h, monster, Elems(h, mods))

\* one entry of Object.entries(mods) (lines 3263-3423)
applyModEntry(h, monster, property, modifications) ==
    IF property = "_" THEN applyRootModifications(h, monster, modifications)
    ELSE IF ~IsArray(h, modifications) THEN applySingleMod(h, monster, property, modifications)
    ELSE applyArrayMods(h, monster, property, Elems(h, modifications))

\* applyModifications: the loop over Object.entries(mods)
RECURSIVE applyModEntries(_, _, _, _)
applyModEntries(h, monster, mods, keys) ==
    IF keys = <<>> THEN Ok(h)
    ELSE Bind(applyModEntry(h, monster, Head(keys), GetProp(h, mods, Head(keys))),
              LAMBDA r : IF r.err THEN r ELSE applyModEntries(r.h, monster, mods, Tail(keys)))

applyModifications(h, monster, mods) ==
    IF Nullish(mods) THEN Throw(h)
    ELSE applyModEntries(h, monster, mods, OwnKeys(h, mods))

----------------------------------------------------------------------------
(* Template resolution engine.  A function yields the heap it leaves, its  *)
(* return value and whether it threw.                                       *)

Return(h, v) == [h |-> h, v |-> v, err |-> FALSE]
Raise(h) == [h |-> h, v |-> Undef, err |-> TRUE]

\* no key taken as starting with an underscore
UnderscoreKeys_None == {}

\* keys of the records that start with an underscore (key.startsWith('_'))
UnderscoreKeys == {"_copy", "_versions", "_mod", "_templates", "_isVariantTemplate",
                   "_isVariant", "_note", "_root"}

\* result[key] = cell, a fresh cell
PutNew(h, result, key, cell) == Bind(Alloc(h, cell), LAMBDA a : PutProp(a.h, result, key, a.v))

\* {...mine, ...value} (line 3203)
Merged(h, mine, value) == AssignCell(Spread(h, mine), OwnKeys(h, value), Elems(h, value))

\* one entry of the override with the array of the override added to the
\* array of the base as one element
mergeEntry_Nest(h, result, key, value, mine) ==
    IF key \in UnderscoreKeys /\ key \notin {"_copy", "_versions"} THEN h
    ELSE IF IsArray(h, value) /\ IsArray(h, mine)
    THEN PutNew(h, result, key, ArrCell(Append(Elems(h, mine), value)))
    ELSE IF IsRef(value) /\ IsRef(mine)
    THEN PutNew(h, result, key, Merged(h, mine, value))
    ELSE PutProp(h, result, key, value)

\* one entry of Object.entries(override) (lines 3189-3208)
mergeEntry(h, result, key, value, mine) ==
    IF key \in UnderscoreKeys /\ key \notin {"_copy", "_versions"} THEN h
    ELSE IF IsArray(h, value) /\ IsArray(h, mine)
    THEN PutNew(h, result, key, ArrCell(Elems(h, mine) \o Elems(h, value)))
    ELSE IF IsRef(value) /\ IsRef(mine)
    THEN PutNew(h, result, key, Merged(h, mine, value))
    ELSE PutProp(h, result, key, value)

\* the loop with every entry of the override that is not skipped written
\* over the entry of the base
RECURSIVE mergeEntries_Replace(_, _, _, _)
mergeEntries_Replace(h, result, override, keys) ==
    IF keys = <<>> THEN h
    ELSE mergeEntries_Replace(IF Head(keys) \in UnderscoreKeys \ {"_copy", "_versions"} THEN h
                              ELSE PutProp(h, result, Head(keys), GetProp(h, override, Head(keys))),
                              result, override, Tail(keys))

\* the loop of mergeMonsterData over Object.entries(override)
RECURSIVE mergeEntries(_, _, _, _)
mergeEntries(h, result, override, keys) ==
    IF keys = <<>> THEN h
    ELSE mergeEntries(mergeEntry(h, result, Head(keys), GetProp(h, override, Head(keys)),
                                 GetProp(h, result, Head(keys))),
                      result, override, Tail(keys))

\* mergeMonsterData with its arguments taken the other way round
mergeMonsterData_Swapped(h, base, override) ==
    IF ~Truthy(base) THEN Return(h, override)
    ELSE IF ~Truthy(override) THEN Return(h, base)
    ELSE Bind(DeepCopy(h, override),
              LAMBDA c : Return(mergeEntries(c.h, c.v, base, OwnKeys(c.h, base)), c.v))

mergeMonsterData(h, base, override) ==
    IF ~Truthy(base) THEN Return(h, override)
    ELSE IF ~Truthy(override) THEN Return(h, base)
    ELSE Bind(DeepCopy(h, base),
              LAMBDA c : Return(mergeEntries(c.h, c.v, override, OwnKeys(c.h, override)), c.v))

\* fetchTemplate (lines 3143-3148) logs and returns null
fetchTemplate(name, source) == Null

\* {...monster} with template.apply._root assigned (lines 3160-3165)
Applied(h, monster, root) ==
    IF Truthy(root)
    THEN AssignCell(Spread(h, monster), OwnKeys(h, root), IF IsRef(root) THEN Elems(h, root) ELSE <<>>)
    ELSE Spread(h, monster)

\* lines 3167-3172 on the copy a
applyMod(a, mod) ==
    Bind(IF Truthy(mod) THEN applyModifications(a.h, a.v, mod) ELSE Ok(a.h),
         LAMBDA r : IF r.err THEN Raise(r.h) ELSE Return(r.h, a.v))

applyTemplate(h, monster, template) ==
    IF ~Truthy(template) \/ ~Truthy(GetProp(h, template, "apply")) THEN Return(h, monster)
    ELSE applyMod(Alloc(h, Applied(h, monster, GetProp(h, GetProp(h, template, "apply"), "_root"))),
                  GetProp(h, GetProp(h, template, "apply"), "_mod"))

\* one turn of the for loop of lines 3121-3127
applyFetched(h, processedMonster, templateData) ==
    IF Truthy(templateData) THEN applyTemplate(h, processedMonster, templateData)
    ELSE Return(h, processedMonster)

\* the for loop of processMonsterCopy over monster._copy._templates
RECURSIVE applyTemplates(_, _, _)
applyTemplates(h, processedMonster, refs) ==
    IF refs = <<>> THEN Return(h, processedMonster)
    ELSE IF Nullish(Head(refs)) THEN Raise(h)
    ELSE Bind(applyFetched(h, processedMonster,
                           fetchTemplate(GetProp(h, Head(refs), "name"),
                                         GetProp(h, Head(refs), "source"))),
              LAMBDA r : IF r.err THEN r ELSE applyTemplates(r.h, r.v, Tail(refs)))

\* lines 3118-3130: the templates are applied to a copy of the base, then
\* the record is merged in
copyWithTemplates(p, result, tpls) ==
    Bind(applyTemplates(p.h, p.v, tpls),
         LAMBDA r : IF r.err THEN r ELSE mergeMonsterData(r.h, r.v, result.v))

\* processMonsterCopy after the lookup, returning what the lookup gave when
\* the base is missing
processCopyOf_ReturnBase(h, result, baseMonster, tpls) ==
    IF ~Truthy(baseMonster) THEN Return(result.h, baseMonster)
    ELSE mergeMonsterData(result.h, baseMonster, result.v)

\* processMonsterCopy after the lookup (lines 3111-3134): result is the
\* shallow copy of the monster
processCopyOf(h, result, baseMonster, tpls) ==
    IF ~Truthy(baseMonster) THEN Return(result.h, result.v)
    ELSE IF IsArray(h, tpls) /\ Len(Elems(h, tpls)) > 0
    THEN copyWithTemplates(Alloc(result.h, Spread(h, baseMonster)), result, Elems(h, tpls))
    ELSE mergeMonsterData(result.h, baseMonster, result.v)

\* processMonsterCopy; baseMonster is what fetchMonsterFn returned for
\* monster._copy.name and monster._copy.source
processMonsterCopy(h, monster, fetchMonsterFn(_, _)) ==
    IF ~Truthy(GetProp(h, monster, "_copy")) THEN Return(h, monster)
    ELSE processCopyOf(h, Alloc(h, Spread(h, monster)),
                       fetchMonsterFn(GetProp(h, GetProp(h, monster, "_copy"), "name"),
                                      GetProp(h, GetProp(h, monster, "_copy"), "source")),
                       GetProp(h, GetProp(h, monster, "_copy"), "_templates"))

\* the direct-property loop leaving the name of the copy alone
RECURSIVE overrideDirect_KeepName(_, _, _, _)
overrideDirect_KeepName(h, variantMonster, variant, keys) ==
    IF keys = <<>> THEN h
    ELSE overrideDirect_KeepName(IF Head(keys) \notin {"_mod", "name"}
                                 THEN PutProp(h, variantMonster, Head(keys),
                                              GetProp(h, variant, Head(keys)))
                                 ELSE h,
                                 variantMonster, variant, Tail(keys))

\* the "override any direct properties" loop of lines 3241-3245
RECURSIVE overrideDirect(_, _, _, _)
overrideDirect(h, variantMonster, variant, keys) ==
    IF keys = <<>> THEN h
    ELSE overrideDirect(IF Head(keys) # "_mod"
                        THEN PutProp(h, variantMonster, Head(keys), GetProp(h, variant, Head(keys)))
                        ELSE h,
                        variantMonster, variant, Tail(keys))

\* lines 3240-3250 on the modified copy c
finishVariant(r, c, variant) ==
    IF r.err THEN Raise(r.h)
    ELSE Return(PutProp(overrideDirect(r.h, c.v, variant, OwnKeys(r.h, variant)),
                        c.v, "_isVariant", Bool(TRUE)),
                c.v)

\* lines 3235-3238 on the deep copy c
modifyVariant(c, variant, mod) ==
    finishVariant(IF Truthy(mod) THEN applyModifications(c.h, c.v, mod) ELSE Ok(c.h), c, variant)

\* the direct fields written on the copy before the _mod block is run
directFirst(h, c, variant, mod) ==
    Bind(IF Truthy(mod) THEN applyModifications(h, c.v, mod) ELSE Ok(h),
         LAMBDA r : IF r.err THEN Raise(r.h)
                    ELSE Return(PutProp(r.h, c.v, "_isVariant", Bool(TRUE)), c.v))

\* a turn of the loop that overrides the direct fields first
processVariant_DirectFirst(h, baseMonster, variant) ==
    IF Nullish(variant) THEN Raise(h)
    ELSE Bind(DeepCopy(h, baseMonster),
              LAMBDA c : directFirst(overrideDirect(c.h, c.v, variant, OwnKeys(c.h, variant)),
                                     c, variant, GetProp(h, variant, "_mod")))

\* one turn of the loop over baseMonster._versions (lines 3231-3251)
processVariant(h, baseMonster, variant) ==
    IF Nullish(variant) THEN Raise(h)
    ELSE modifyVariant(DeepCopy(h, baseMonster), variant, GetProp(h, variant, "_mod"))

RECURSIVE processVariantsFrom(_, _, _, _)
processVariantsFrom(h, baseMonster, variants, i) ==
    IF i > Len(Elems(h, GetProp(h, baseMonster, "_versions"))) THEN Return(h, variants)
    ELSE Bind(processVariant(h, baseMonster, Elems(h, GetProp(h, baseMonster, "_versions"))[i]),
              LAMBDA r : IF r.err THEN r
                         ELSE processVariantsFrom([r.h EXCEPT ![variants.a].el = Append(@, r.v)],
                                                  baseMonster, variants, i + 1))

\* the list the loop starts from, then the loop
processFrom(a, baseMonster) == processVariantsFrom(a.h, baseMonster, a.v, 1)

\* processMonsterVariants including the base whatever _isVariantTemplate says
processMonsterVariants_BaseAlways(h, baseMonster) ==
    IF ~IsArray(h, GetProp(h, baseMonster, "_versions"))
    THEN Bind(Alloc(h, ArrCell(<<baseMonster>>)), LAMBDA a : Return(a.h, a.v))
    ELSE processFrom(Alloc(h, ArrCell(<<baseMonster>>)), baseMonster)

processMonsterVariants(h, baseMonster) ==
    IF ~IsArray(h, GetProp(h, baseMonster, "_versions"))
    THEN Bind(Alloc(h, ArrCell(<<baseMonster>>)), LAMBDA a : Return(a.h, a.v))
    ELSE processFrom(Alloc(h, ArrCell(IF Truthy(GetProp(h, baseMonster, "_isVariantTemplate"))
                                      THEN <<>> ELSE <<baseMonster>>)),
                     baseMonster)

----------------------------------------------------------------------------
(* Markup.  A text is a sequence of tokens: the opening of a directive     *)
(* ("{@hit"), the closing brace, a blank, a run of digits, a word.  The     *)
(* regular expressions of parseFormattingTags are matched on the tokens.   *)

Opens == {"{@atk", "{@hit", "{@hitYourSpellAttack", "{@damage", "{@condition", "{@dc",
          "{@recharge", "{@h", "{@dice"}
DigitTokens == {"3", "4", "5", "6"}
\* the tokens that do not begin, and those that do not end, with a word character
NoWordStart == Opens \cup {"}", " ", "-", "+", "--", "+ your spell attack modifier"}
NoWordEnd == {"}", " ", "-", "+", "--", "Hit: ", "Melee Weapon Attack:", "Ranged Weapon Attack:",
              "Melee Spell Attack:", "Ranged Spell Attack:"}

\* the length of the longest run of tokens of the class from position i on
RECURSIVE RunFrom(_, _, _)
RunFrom(s, In(_), i) == IF i <= Len(s) /\ In(s[i]) THEN 1 + RunFrom(s, In, i + 1) ELSE 0
DigitRun(s, i) == RunFrom(s, LAMBDA t : t \in DigitTokens, i)
OpenRun(s, i) == RunFrom(s, LAMBDA t : t # "}", i)

\* a match at a position: how many tokens it takes and what replaces them
NoMatch == [len |-> 0, out |-> <<>>]
At(s, i, t) == i <= Len(s) /\ s[i] = t

\* /lit/ for a pattern without groups
Literal(s, i, lit, out) ==
    IF i + Len(lit) - 1 <= Len(s) /\ SubSeq(s, i, i + Len(lit) - 1) = lit
    THEN [len |-> Len(lit), out |-> out]
    ELSE NoMatch

\* /{@name (X+)}/ with the group of n tokens, replaced by prefix and $1
Tagged(s, i, open, n, prefix) ==
    IF At(s, i, open) /\ At(s, i + 1, " ") /\ n >= 1 /\ At(s, i + 2 + n, "}")
    THEN [len |-> n + 3, out |-> prefix \o SubSeq(s, i + 2, i + 1 + n)]
    ELSE NoMatch

\* /{@recharge (\d+)-(\d+)}/ with groups of n and m tokens; the token "--"
\* stands for the en dash of the replacement
Ranged(s, i, n, m) ==
    IF /\ At(s, i, "{@recharge") /\ At(s, i + 1, " ") /\ n >= 1 /\ At(s, i + 2 + n, "-")
       /\ m >= 1 /\ At(s, i + 3 + n + m, "}")
    THEN [len |-> n + m + 4,
          out |-> <<"Recharge", " ">> \o SubSeq(s, i + 2, i + 1 + n) \o <<"--">>
                  \o SubSeq(s, i + 3 + n, i + 2 + n + m)]
    ELSE NoMatch

\* /\bword\b/
Bare(s, i, word, out) ==
    IF /\ At(s, i, word)
       /\ i > 1 => s[i - 1] \in NoWordEnd
       /\ i < Len(s) => s[i + 1] \in NoWordStart
    THEN [len |-> 1, out |-> out]
    ELSE NoMatch

\* text.replace(/pattern/g, replacement): the matches are taken from left to
\* right and do not overlap
RECURSIVE ReplaceAll(_, _, _)
ReplaceAll(s, Rule(_, _), i) ==
    IF i > Len(s) THEN <<>>
    ELSE LET m == Rule(s, i)
         IN IF m.len = 0 THEN <<s[i]>> \o ReplaceAll(s, Rule, i + 1)
            ELSE m.out \o ReplaceAll(s, Rule, i + m.len)

Tag(open, arg) == <<open>> \o (IF arg = <<>> THEN <<>> ELSE <<" ">> \o arg) \o <<"}">>

\* text.replace(/pattern/g, replacement) from the start of the text
Replaced(s, Rule(_, _)) == ReplaceAll(s, Rule, 1)

\* the text after the replacements lo..hi of a list, one after the other,
\* each on the whole of the text the one before it left
RECURSIVE Rewritten(_, _, _, _)
Rewritten(s, Rule(_, _, _), lo, hi) ==
    IF Len(s) = 0 \/ lo = hi THEN Replaced(s, LAMBDA t, i : Rule(lo, t, i))
    ELSE Rewritten(Rewritten(s, Rule, lo, (lo + hi) \div 2), Rule, (lo + hi) \div 2 + 1, hi)

\* lines 3587-3590
attackTags(s) ==
    Rewritten(s, LAMBDA k, t, i :
        CASE k = 1 -> Literal(t, i, Tag("{@atk", <<"mw">>), <<"Melee Weapon Attack:">>)
          [] k = 2 -> Literal(t, i, Tag("{@atk", <<"rw">>), <<"Ranged Weapon Attack:">>)
          [] k = 3 -> Literal(t, i, Tag("{@atk", <<"ms">>), <<"Melee Spell Attack:">>)
          [] k = 4 -> Literal(t, i, Tag("{@atk", <<"rs">>), <<"Ranged Spell Attack:">>),
        1, 4)

\* lines 3593-3594
hitTags(s) ==
    Rewritten(s, LAMBDA k, t, i :
        CASE k = 1 -> Tagged(t, i, "{@hit", DigitRun(t, i + 2), <<"+">>)
          [] k = 2 -> Literal(t, i, Tag("{@hitYourSpellAttack", <<>>),
                              <<"+ your spell attack modifier">>),
        1, 2)

\* lines 3597-3603
damageTags(s) ==
    Rewritten(s, LAMBDA k, t, i :
        CASE k = 1 -> Tagged(t, i, "{@damage", OpenRun(t, i + 2), <<>>)
          [] k = 2 -> Tagged(t, i, "{@condition", OpenRun(t, i + 2), <<>>)
          [] k = 3 -> Tagged(t, i, "{@dc", DigitRun(t, i + 2), <<"DC", " ">>),
        1, 3)

\* context.key || phrase, as the replacement text
OrPhrase(v, phrase) == IF Truthy(v) THEN Tokens(v) ELSE <<phrase>>

\* lines 3606-3607
dynamicValues(s, context) ==
    Rewritten(s, LAMBDA k, t, i :
        CASE k = 1 -> Bare(t, i, "PB",
                           OrPhrase(context.proficiencyBonus, "your proficiency bonus"))
          [] k = 2 -> Bare(t, i, "summonSpellLevel",
                           OrPhrase(context.spellLevel, "the spell's level")),
        1, 2)

\* lines 3610-3615
rechargeTags(s) ==
    Rewritten(s, LAMBDA k, t, i :
        CASE k = 1 -> Literal(t, i, Tag("{@recharge", <<>>), <<"Recharge">>)
          [] k = 2 -> Tagged(t, i, "{@recharge", DigitRun(t, i + 2), <<"Recharge", " ">>)
          [] k = 3 -> Ranged(t, i, DigitRun(t, i + 2), DigitRun(t, i + 3 + DigitRun(t, i + 2)))
          [] k = 4 -> Literal(t, i, Tag("{@h", <<>>), <<"Hit: ">>),
        1, 4)

\* the context of a call that gives none (context = {})
NoContext == [proficiencyBonus |-> Undef, spellLevel |-> Undef]

\* parseFormattingTags(text, context): the text it returns
parseFormattingTags(text, context) ==
    IF text.k # "str" \/ text.s = <<>> THEN Str(<<>>)
    ELSE Str(rechargeTags(dynamicValues(damageTags(hitTags(attackTags(text.s))), context)))

----------------------------------------------------------------------------
(* Rendering.  A document is described by its kind and by the data it      *)
(* shows: a stat block by the name in its header and the fields its lines  *)
(* are made from, a notice or a selection list by the names it lists, an   *)
(* error message by what it names.                                         *)

NoDoc == [doc |-> "none"]

\* the fields of the creature the stat block shows (lines 3696-3770)
StatFields == {"cr", "size", "type", "alignment", "ac", "hp", "speed",
               "str", "dex", "con", "int", "wis", "cha",
               "save", "skill", "resist", "immune", "vulnerable", "conditionImmune",
               "senses", "passive", "languages",
               "trait", "spellcasting", "action", "bonus", "reaction", "legendary"}

\* options[key] of an options object that may lack the key
Opt(context, key) == IF key \in DOMAIN context THEN context[key] ELSE Undef

\* the context of tag parsing (lines 3690-3693)
parsingContext(context) ==
    [proficiencyBonus |-> IF Truthy(Opt(context, "proficiencyBonus"))
                          THEN Opt(context, "proficiencyBonus") ELSE W("PB"),
     spellLevel |-> IF Truthy(Opt(context, "spellLevel"))
                    THEN Opt(context, "spellLevel") ELSE W("the spell's level")]

\* a part of the document: the headers it shows (names of detail lines and
\* titles of sections), the expanded texts it shows, and whether making it
\* threw
Nothing == [headers |-> <<>>, texts |-> <<>>, err |-> FALSE]
Thrown == [headers |-> <<>>, texts |-> <<>>, err |-> TRUE]
Shown(text) == [headers |-> <<>>, texts |-> <<text>>, err |-> FALSE]
Header(title) == [headers |-> <<title>>, texts |-> <<>>, err |-> FALSE]
Then(a, b) ==
    IF a.err THEN a
    ELSE [headers |-> a.headers \o b.headers, texts |-> a.texts \o b.texts, err |-> b.err]

\* what `for (const item of items)` visits: the elements of an array, the
\* characters of a string
Iterated(h, items) ==
    IF items.k = "str" THEN [i \in 1..Len(items.s) |-> W(items.s[i])] ELSE Elems(h, items)

\* one item of a list entry (lines 3646-3650)
listItem(h, item, context) ==
    IF Nullish(item) THEN Thrown
    ELSE IF \/ item.k = "str"
            \/ /\ GetProp(h, item, "type") = W("item")
               /\ Truthy(GetProp(h, item, "name")) /\ Truthy(GetProp(h, item, "entry"))
    THEN Shown(parseFormattingTags(IF item.k = "str" THEN item ELSE GetProp(h, item, "entry"),
                                   context))
    ELSE Nothing

RECURSIVE listItems(_, _, _)
listItems(h, items, context) ==
    IF items = <<>> THEN Nothing
    ELSE Then(listItem(h, Head(items), context), listItems(h, Tail(items), context))

\* processEntries (lines 3626-3667)
RECURSIVE processEntries(_, _, _), processEntry(_, _, _), processEntryList(_, _, _)
processEntries(h, entries, context) ==
    IF ~Truthy(entries) THEN Nothing
    ELSE IF entries.k = "str" THEN Shown(parseFormattingTags(entries, context))
    ELSE IF IsArray(h, entries) THEN processEntryList(h, Elems(h, entries), context)
    ELSE Nothing
processEntryList(h, entries, context) ==
    IF entries = <<>> THEN Nothing
    ELSE Then(processEntry(h, Head(entries), context), processEntryList(h, Tail(entries), context))
processEntry(h, entry, context) ==
    IF entry.k = "str" THEN Shown(parseFormattingTags(entry, context))
    ELSE IF Nullish(entry) THEN Thrown
    ELSE IF GetProp(h, entry, "type") = W("list")
    THEN (IF IsArray(h, GetProp(h, entry, "items")) \/ GetProp(h, entry, "items").k = "str"
          THEN listItems(h, Iterated(h, GetProp(h, entry, "items")), context)
          ELSE Thrown)
    ELSE IF Truthy(GetProp(h, entry, "name")) /\ Truthy(GetProp(h, entry, "entries"))
    THEN processEntries(h, GetProp(h, entry, "entries"), context)
    ELSE Nothing

\* one item of a section (lines 3788-3804)
sectionItem(h, item, context) ==
    IF item.k = "str" THEN Shown(parseFormattingTags(item, context))
    ELSE IF Nullish(item) THEN Thrown
    ELSE IF Truthy(GetProp(h, item, "name")) /\ Truthy(GetProp(h, item, "entries"))
    THEN processEntries(h, GetProp(h, item, "entries"), context)
    ELSE Nothing

RECURSIVE sectionItems(_, _, _)
sectionItems(h, items, context) ==
    IF items = <<>> THEN Nothing
    ELSE Then(sectionItem(h, Head(items), context), sectionItems(h, Tail(items), context))

\* renderCreatureSection (lines 3780-3808)
renderCreatureSection(h, items, title, context) ==
    IF ~Truthy(items) \/ ~IsArray(h, items) THEN Nothing
    ELSE IF Len(Elems(h, items)) = 0 THEN Nothing
    ELSE Then(Header(title), sectionItems(h, Elems(h, items), context))

\* one caster of the spellcasting section (lines 4158-4213); the lists of
\* spell names are shown as they are stored
casterShown(h, caster, context) ==
    IF Nullish(caster) THEN Thrown
    ELSE IF Truthy(GetProp(h, caster, "headerEntries"))
    THEN processEntries(h, GetProp(h, caster, "headerEntries"), context)
    ELSE Nothing

RECURSIVE castersShown(_, _, _)
castersShown(h, casters, context) ==
    IF casters = <<>> THEN Nothing
    ELSE Then(casterShown(h, Head(casters), context), castersShown(h, Tail(casters), context))

\* creature.spellcasting ? renderSpellcasting(...) : '' (lines 3764, 4150-4218)
renderSpellcasting(h, spellcasting, context) ==
    IF ~Truthy(spellcasting) \/ ~IsArray(h, spellcasting) THEN Nothing
    ELSE IF Len(Elems(h, spellcasting)) = 0 THEN Nothing
    ELSE Then(Header("Spellcasting"), castersShown(h, Elems(h, spellcasting), context))

\* Object.keys(v).length
KeyCount(h, v) == IF v.k = "str" THEN Len(v.s) ELSE Len(OwnKeys(h, v))

\* renderSavingThrows and renderSkills (lines 3970-4033)
renderBonuses(h, bonuses, title) ==
    IF ~Truthy(bonuses) \/ KeyCount(h, bonuses) = 0 THEN Nothing ELSE Header(title)

\* the text of one item of a resistance list is not empty (lines 4051-4077)
itemShown(h, item) ==
    \/ item.k = "str" /\ item.s # <<>>
    \/ /\ IsRef(item)
       /\ \/ Truthy(GetProp(h, item, "resist")) /\ Truthy(GetProp(h, item, "cond"))
          \/ Truthy(GetProp(h, item, "immune")) /\ Truthy(GetProp(h, item, "cond"))

\* renderResistancesAndImmunities (lines 4041-4090)
renderResistancesAndImmunities(h, items, title) ==
    IF ~Truthy(items) THEN Nothing
    ELSE IF items.k = "str" THEN Header(title)
    ELSE IF ~IsArray(h, items) THEN Nothing
    ELSE IF \E i \in 1..Len(Elems(h, items)) : Elems(h, items)[i] = Null THEN Thrown
    ELSE IF \E i \in 1..Len(Elems(h, items)) : itemShown(h, Elems(h, items)[i]) THEN Header(title)
    ELSE Nothing

\* renderSenses (lines 4098-4119)
renderSenses(h, senses, passivePerception) ==
    IF (IsArray(h, senses) /\ Len(Elems(h, senses)) > 0) \/ Truthy(passivePerception)
    THEN Header("Senses") ELSE Nothing

\* renderLanguages (lines 4126-4142): the line is there with or without
\* languages
renderLanguages(h, languages) == Header("Languages")

\* the detail lines of lines 3752-3761
creatureDetails(h, creature) ==
    Then(renderBonuses(h, GetProp(h, creature, "save"), "Saving Throws"),
    Then(renderBonuses(h, GetProp(h, creature, "skill"), "Skills"),
    Then(renderResistancesAndImmunities(h, GetProp(h, creature, "resist"), "Damage Resistances"),
    Then(renderResistancesAndImmunities(h, GetProp(h, creature, "immune"), "Damage Immunities"),
    Then(renderResistancesAndImmunities(h, GetProp(h, creature, "vulnerable"), "Damage Vulnerabilities"),
    Then(renderResistancesAndImmunities(h, GetProp(h, creature, "conditionImmune"), "Condition Immunities"),
    Then(renderSenses(h, GetProp(h, creature, "senses"), GetProp(h, creature, "passive")),
         renderLanguages(h, GetProp(h, creature, "languages")))))))))

\* the sections of lines 3763-3768
Sections ==
    << <<"trait", "Traits">>, <<"spellcasting", "Spellcasting">>, <<"action", "Actions">>,
       <<"bonus", "Bonus Actions">>, <<"reaction", "Reactions">>,
       <<"legendary", "Legendary Actions">> >>

RECURSIVE sectionsFrom(_, _, _, _)
sectionsFrom(h, creature, context, i) ==
    IF i > Len(Sections) THEN Nothing
    ELSE Then(IF Sections[i][1] = "spellcasting"
              THEN renderSpellcasting(h, GetProp(h, creature, "spellcasting"), context)
              ELSE renderCreatureSection(h, GetProp(h, creature, Sections[i][1]), Sections[i][2],
                                         context),
              sectionsFrom(h, creature, context, i + 1))

creatureSections(h, creature, context) == sectionsFrom(h, creature, context, 1)

\* the stat block (lines 3696-3770) with the given details and sections
StatBlockOf(h, creature, body) ==
    IF body.err THEN [d |-> NoDoc, err |-> TRUE]
    ELSE [d |-> [doc |-> "statblock",
                 name |-> View(h, GetProp(h, creature, "name")),
                 stats |-> [f \in StatFields |-> View(h, GetProp(h, creature, f))],
                 headers |-> body.headers,
                 features |-> body.texts],
          err |-> FALSE]

StatBlock(h, creature, context) ==
    StatBlockOf(h, creature,
                Then(creatureDetails(h, creature), creatureSections(h, creature, parsingContext(context))))

\* the names of the variant specs of a _versions list (v => v.name)
NamesOf(h, versions) ==
    [i \in 1..Len(Elems(h, versions)) |-> View(h, GetProp(h, Elems(h, versions)[i], "name"))]
AnyNullish(h, versions) == \E i \in 1..Len(Elems(h, versions)) : Nullish(Elems(h, versions)[i])

\* the guard of lines 3677-3687 on creature._versions
renderGuarded(h, creature, context, versions) ==
    IF Truthy(versions) /\ ~Truthy(context.processVariants)
    THEN IF ~IsArray(h, versions) \/ AnyNullish(h, versions)
         THEN [d |-> NoDoc, err |-> TRUE]
         ELSE [d |-> [doc |-> "notice", names |-> NamesOf(h, versions)], err |-> FALSE]
    ELSE StatBlock(h, creature, context)

\* options: [variant, processVariants], the fields of the options object
renderCreatureStatBlock(h, creature, context) ==
    renderGuarded(h, creature, context, GetProp(h, creature, "_versions"))

\* the selection list of lines 4312-4333
Selection(h, creature, versions, base) ==
    IF ~Truthy(versions) \/ ~IsArray(h, versions) \/ Len(Elems(h, versions)) = 0
    THEN renderCreatureStatBlock(h, creature, [variant |-> Undef, processVariants |-> Bool(TRUE)])
    ELSE IF AnyNullish(h, versions)
    THEN [d |-> NoDoc, err |-> TRUE]
    ELSE [d |-> [doc |-> "selection",
                 title |-> View(h, GetProp(h, creature, "name")),
                 base |-> base,
                 names |-> NamesOf(h, versions)],
          err |-> FALSE]

\* renderVariantSelection offering the base entry whatever the record says
renderVariantSelection_AlwaysBase(h, creature) ==
    Selection(h, creature, GetProp(h, creature, "_versions"), TRUE)

renderVariantSelection(h, creature) ==
    Selection(h, creature, GetProp(h, creature, "_versions"),
              ~Truthy(GetProp(h, creature, "_isVariantTemplate")))

\* the record lookup handed to displayCreatureDetails and processMonsterCopy:
\* the first stored record with that name and source, undefined when none
FetchMonster(h, store, name, source) ==
    Pick(store, FirstIndex(store, LAMBDA c : GetProp(h, c, "name") = name
                                             /\ GetProp(h, c, "source") = source))

Rendered(h, r) == [h |-> h, d |-> r.d, err |-> r.err]

ErrorDoc(what, id, variant, name) ==
    [doc |-> "error", what |-> what, id |-> id, variant |-> variant, creature |-> name]

\* lines 4262-4271: the record is resolved and rendered
displayCopy(p, options) ==
    IF p.err THEN [h |-> p.h, d |-> NoDoc, err |-> TRUE]
    ELSE Rendered(p.h, renderCreatureStatBlock(p.h, p.v, options))

\* lines 4282-4290: the expanded variant with the requested name is rendered
displayProcessed(vs, creature, creatureId, options, processed) ==
    IF processed = 0
    THEN [h |-> vs.h,
          d |-> ErrorDoc("variant", creatureId, options.variant,
                         View(vs.h, GetProp(vs.h, creature, "name"))),
          err |-> FALSE]
    ELSE Rendered(vs.h, renderCreatureStatBlock(vs.h, Elems(vs.h, vs.v)[processed], options))

displayExpanded(vs, creature, creatureId, options) ==
    IF vs.err THEN [h |-> vs.h, d |-> NoDoc, err |-> TRUE]
    ELSE displayProcessed(vs, creature, creatureId, options,
                          FirstIndex(Elems(vs.h, vs.v),
                                     LAMBDA v : GetProp(vs.h, v, "name") = options.variant))

\* lines 4276-4291: a variant is requested of a record with forks
displayVariant(h, creature, creatureId, options, versions) ==
    IF \E i \in 1..Len(Elems(h, versions)) :
          /\ Nullish(Elems(h, versions)[i])
          /\ \A j \in 1..(i - 1) : GetProp(h, Elems(h, versions)[j], "name") # options.variant
    THEN [h |-> h, d |-> NoDoc, err |-> TRUE]
    ELSE IF FirstIndex(Elems(h, versions), LAMBDA v : GetProp(h, v, "name") = options.variant) = 0
    THEN [h |-> h,
          d |-> ErrorDoc("variant", creatureId, options.variant, View(h, GetProp(h, creature, "name"))),
          err |-> FALSE]
    ELSE displayExpanded(processMonsterVariants(h, creature), creature, creatureId, options)

displayFound(h, store, creatureId, options, creature, versions) ==
    IF Truthy(GetProp(h, creature, "_copy"))
    THEN displayCopy(processMonsterCopy(h, creature, LAMBDA n, src : FetchMonster(h, store, n, src)),
                     options)
    ELSE IF IsArray(h, versions) /\ Len(Elems(h, versions)) > 0
    THEN IF Truthy(options.variant)
         THEN displayVariant(h, creature, creatureId, options, versions)
         ELSE Rendered(h, renderVariantSelection(h, creature))
    ELSE Rendered(h, renderCreatureStatBlock(h, creature, options))

displayIndexed(h, store, creatureId, options, index) ==
    IF index = 0
    THEN [h |-> h, d |-> ErrorDoc("creature", creatureId, Undef, Undef), err |-> FALSE]
    ELSE displayFound(h, store, creatureId, options, store[index],
                      GetProp(h, store[index], "_versions"))

\* displayCreatureDetails(creatureId, getAllCreatures, fetchMonster, options)
displayCreatureDetails(h, store, creatureId, options) ==
    displayIndexed(h, store, creatureId, options,
                   FirstIndex(store, LAMBDA c : GetProp(h, c, "id") = creatureId))

----------------------------------------------------------------------------
(* The store.  Records are written in the bestiary dialect; the variant    *)
(* specs and their modification lists are drawn from bounded sets.         *)

\* longest _versions list of a stored record
MaxVersions == 2
\* longest list of array modifications of one variant
MaxOps == 2

Pairs(o) == o.p
Feature(name, text) == O(<< <<"name", W(name)>>, <<"entries", A(<<Str(text)>>)>> >>)

Slam == Feature("Slam", <<"one", "creature", "Hit:", "bludgeoning">>)
Bite == Feature("Bite", <<"one", "creature", "Hit:", "piercing">>)

AppendBite == O(<< <<"mode", W("appendArr")>>, <<"items", Bite>> >>)
PrependBite == O(<< <<"mode", W("prependArr")>>, <<"items", A(<<Bite>>)>> >>)
RenameBite == O(<< <<"mode", W("renameArr")>>,
                   <<"renames", O(<< <<"rename", W("Bite")>>, <<"with", W("Claw")>> >>)>> >>)
RemoveSlam == O(<< <<"mode", W("removeArr")>>, <<"names", W("Slam")>> >>)
SetProp(path, value) == O(<< <<"mode", W("setProp")>>, <<"prop", Str(path)>>, <<"value", value>> >>)

\* all sequences over S of length at most n
RECURSIVE SeqsUpTo(_, _)
SeqsUpTo(S, n) ==
    IF n = 0 THEN {<<>>}
    ELSE LET shorter == SeqsUpTo(S, n - 1) IN
         shorter \cup {Append(q, x) : q \in shorter, x \in S}

\* a variant spec: optional name, optional _mod block, optional direct fields
VariantSpec(name, mod, direct) ==
    O((IF name = "" THEN <<>> ELSE << <<"name", W(name)>> >>)
      \o (IF mod = <<>> THEN <<>> ELSE << <<"_mod", O(mod)>> >>)
      \o direct)

BaseName == "Bestial Spirit"

\* the variant specs of the stored records shown to the user; a _versions
\* list is a run of consecutive specs of this cycle
DisplaySpecs ==
    << VariantSpec("Air", <<>>, << <<"ac", Num(13)>> >>),
       VariantSpec("Land", << <<"action", A(<<AppendBite>>)>> >>, <<>>),
       VariantSpec("Land", << <<"action", A(<<PrependBite, RenameBite>>)>> >>, << <<"ac", Num(12)>> >>),
       VariantSpec("", << <<"action", A(<<RemoveSlam>>)>> >>, <<>>),
       VariantSpec(BaseName, <<>>, << <<"ac", Num(9)>> >>) >>

\* the n specs of cycle that follow position start
Run(cycle, start, n) == [i \in 1..n |-> cycle[((start + i - 2) % Len(cycle)) + 1]]
Runs(cycle, max) == {Run(cycle, start, n) : start \in 1..Len(cycle), n \in 0..max}

\* the record whose forks are expanded
Spirit(template, versions, actions) ==
    O(<< <<"id", W("a")>>, <<"name", W(BaseName)>>, <<"source", W("TCE")>>,
         <<"ac", Num(11)>>, <<"size", W("S")>>, <<"action", A(actions)>> >>
      \o (IF template THEN << <<"_isVariantTemplate", Bool(TRUE)>> >> ELSE <<>>)
      \o << <<"_versions", A(versions)>> >>)

\* a record defined as a copy of the spirit
Elder ==
    O(<< <<"id", W("b")>>, <<"name", W("Elder Spirit")>>, <<"source", W("TCE")>>,
         <<"_copy", O(<< <<"name", W(BaseName)>>, <<"source", W("TCE")>> >>)>>,
         <<"ac", Num(15)>>, <<"action", A(<<Bite>>)>> >>)

\* a record whose base is not in the store, with forks of its own
Orphan ==
    O(<< <<"id", W("d")>>, <<"name", W("Lost Spirit")>>, <<"source", W("TCE")>>,
         <<"_copy", O(<< <<"name", W("Ghost")>>, <<"source", W("MM")>> >>)>>,
         <<"ac", Num(10)>>,
         <<"_versions", A(<<VariantSpec("Land", <<>>, << <<"ac", Num(13)>> >>)>>)>> >>)

\* a record with neither _copy nor _versions
Wolf ==
    O(<< <<"id", W("c")>>, <<"name", W("Wolf")>>, <<"source", W("MM")>>,
         <<"ac", Num(13)>>, <<"size", W("M")>>, <<"action", A(<<Bite>>)>> >>)

\* the heap and the roots holding the given records and templates
Stored(g, n, m) ==
    [heap |-> g.h, creatures |-> SubSeq(g.roots, 1, n), templates |-> SubSeq(g.roots, n + 1, n + m)]
Loaded(r) == Collect(r.h, r.vs)
Store(records, tpls) ==
    Stored(Loaded(LoadSeq(<<>>, records \o tpls, <<>>)), Len(records), Len(tpls))

DisplayStores ==
    { Store(<<Spirit(t, vs, <<Slam>>), Elder, Wolf, Orphan>>, <<>>) :
        t \in BOOLEAN, vs \in Runs(DisplaySpecs, MaxVersions) }

NoCall == [op |-> "none"]
NoRet == [v |-> Undef, d |-> NoDoc]

InitFrom(stores) ==
    \E s \in stores :
        /\ heap = s.heap
        /\ creatures = s.creatures
        /\ templates = s.templates
        /\ call = NoCall
        /\ ret = NoRet
        /\ raised = FALSE
        /\ pre = [heap |-> s.heap, creatures |-> s.creatures, templates |-> s.templates,
                  ret |-> NoRet]

Init == InitFrom(DisplayStores)

----------------------------------------------------------------------------
(* Calls.  Each action is one call of an exported function on the store;   *)
(* what it leaves in the heap stays there for the calls that follow.       *)

\* what a call starts from: the store, and the previous result when the call
\* takes it as its argument
Snapshot == [heap |-> heap, creatures |-> creatures, templates |-> templates, ret |-> NoRet]
SnapshotWithRet == [Snapshot EXCEPT !.ret = ret]

\* the state after a call that left heap h and returned value v or document d
Settle(g, c, d, err, before) ==
    /\ heap' = g.h
    /\ creatures' = SubSeq(g.roots, 1, Len(creatures))
    /\ templates' = SubSeq(g.roots, Len(creatures) + 1, Len(creatures) + Len(templates))
    /\ call' = c
    /\ ret' = [v |-> g.roots[Len(g.roots)], d |-> d]
    /\ raised' = err
    /\ pre' = before

Finish(h, c, v, d, err, before) ==
    Settle(IF ~IsRef(v) /\ SubSeq(h, 1, Len(heap)) = heap
           THEN [h |-> heap, roots |-> creatures \o templates \o <<v>>]
           ELSE Collect(h, creatures \o templates \o <<v>>),
           c, d, err, before)

\* the state after a call that returned the document r.d
FinishDocument(r, c) == Finish(r.h, c, Undef, r.d, r.err, Snapshot)
\* the state after a call that returned the value r.v
FinishValue(r, c, before) == Finish(r.h, c, r.v, NoDoc, r.err, before)

Ids == {W("a"), W("b"), W("c"), W("d"), W("z")}
Selections == {Undef, W("Air"), W("Land"), W(BaseName), W("Fire")}
Flags == {Undef, Bool(TRUE)}
\* the values of the proficiencyBonus and spellLevel options
Givens == {[proficiencyBonus |-> Undef, spellLevel |-> Undef],
           [proficiencyBonus |-> Num(3), spellLevel |-> Num(4)]}
Options(variant, pv, given) ==
    [variant |-> variant, processVariants |-> pv,
     proficiencyBonus |-> given.proficiencyBonus, spellLevel |-> given.spellLevel]

\* A call made on the store that the call before it started from ends in a
\* state already reached from there: the calls explored are the first call
\* and the calls that follow one which changed the store.
StoreChanged ==
    call = NoCall \/ heap # pre.heap \/ creatures # pre.creatures \/ templates # pre.templates

DisplayCreatureDetails ==
    \E id \in Ids, variant \in Selections, pv \in Flags :
        /\ StoreChanged
        /\ FinishDocument(displayCreatureDetails(heap, creatures, id,
                                                 [variant |-> variant, processVariants |-> pv]),
                          [op |-> "displayCreatureDetails", id |-> id,
                           options |-> [variant |-> variant, processVariants |-> pv]])

RenderCreatureStatBlock ==
    \E i \in 1..Len(creatures), pv \in Flags, given \in Givens :
        /\ StoreChanged
        /\ FinishDocument(Rendered(heap, renderCreatureStatBlock(heap, creatures[i],
                                                                 Options(Undef, pv, given))),
                          [op |-> "renderCreatureStatBlock", arg |-> i,
                           options |-> Options(Undef, pv, given)])

Next == DisplayCreatureDetails \/ RenderCreatureStatBlock

Spec == Init /\ [][Next]_vars

----------------------------------------------------------------------------
(* Properties of the display entry point                                   *)

IsDisplay == call.op = "displayCreatureDetails"
IsRender == call.op = "renderCreatureStatBlock"

\* position in the store, before the call, of the record the call is about
StoredAt ==
    IF IsDisplay
    THEN FirstIndex(pre.creatures, LAMBDA c : GetProp(pre.heap, c, "id") = call.id)
    ELSE call.arg
PreRecord == pre.creatures[StoredAt]
PreField(key) == GetProp(pre.heap, PreRecord, key)

\* the specs of the _versions list of a record, <<>> when it has no list
Versions(h, rec) ==
    IF IsArray(h, GetProp(h, rec, "_versions")) THEN Elems(h, GetProp(h, rec, "_versions")) ELSE <<>>
VersionNames(h, rec) ==
    [i \in 1..Len(Versions(h, rec)) |-> View(h, GetProp(h, Versions(h, rec)[i], "name"))]

Selected == call.options.variant

\* the document is the stat block of a variant made from spec: its header
\* carries the selected name and every direct field of the spec shows
ShowsVariant(d, h, spec) ==
    /\ d.doc = "statblock"
    /\ d.name = Selected
    /\ \A f \in SeqRange(OwnKeys(h, spec)) \cap StatFields : d.stats[f] = View(h, GetProp(h, spec, f))

\* C1: displaying a stored record without _copy with the selection n, n the
\* name of one of its _versions, returns the stat block of variant n and not
\* a fork list or a "please select a variant" notice
C1_SelectedVariantShown ==
    (/\ IsDisplay /\ StoredAt # 0
     /\ ~Truthy(PreField("_copy"))
     /\ Truthy(Selected)
     /\ \E i \in 1..Len(Versions(pre.heap, PreRecord)) : VersionNames(pre.heap, PreRecord)[i] = Selected)
    => /\ ~raised
       /\ \E i \in 1..Len(Versions(pre.heap, PreRecord)) :
             /\ VersionNames(pre.heap, PreRecord)[i] = Selected
             /\ ShowsVariant(ret.d, pre.heap, Versions(pre.heap, PreRecord)[i])

\* the document lists the base entry
HasBase(d) == d.doc = "selection" /\ d.base

\* the document is a fork list for the record: every variant name, and the
\* base unless the record is template-only
ForkList(d, h, rec) ==
    /\ d.doc \in {"selection", "notice"}
    /\ d.names = VersionNames(h, rec)
    /\ HasBase(d) <=> ~Truthy(GetProp(h, rec, "_isVariantTemplate"))

NoSelection == ~Truthy(call.options.variant)
NoFlag == ~Truthy(call.options.processVariants)

C3_InvalidVariantNamed ==
    (/\ IsDisplay /\ StoredAt # 0
     /\ Versions(pre.heap, PreRecord) # <<>>
     /\ Truthy(Selected)
     /\ \A i \in 1..Len(Versions(pre.heap, PreRecord)) : VersionNames(pre.heap, PreRecord)[i] # Selected)
    => ~raised /\ ret.d.doc = "error" /\ ret.d.variant = Selected

----------------------------------------------------------------------------
(* Fork expansion: processMonsterVariants called on the records of a store *)
(* whose first fork carries a list of array modifications.                 *)

ArrayOps == {AppendBite, PrependBite, RenameBite, RemoveSlam}

\* the setProp that renames the second action
RenameSecond == SetProp(<<"action", "1", "name">>, W("Maul"))

\* the _mod blocks of the first fork
ForkMods ==
    { (IF ops = <<>> THEN <<>> ELSE << <<"action", A(ops)>> >>) \o tail :
        ops \in SeqsUpTo(ArrayOps, MaxOps),
        tail \in { <<>>, << <<"second", RenameSecond>> >> } }

FirstForks == { VariantSpec("Land", m, << <<"ac", Num(12)>> >>) : m \in ForkMods }

\* the forks that may follow the first one
SiblingSpecs ==
    << VariantSpec("Air", <<>>, << <<"ac", Num(13)>> >>),
       VariantSpec("Land", <<>>, << <<"ac", Num(9)>> >>),
       VariantSpec("", <<>>, << <<"size", W("L")>> >>),
       VariantSpec(BaseName, << <<"action", A(<<AppendBite>>)>> >>, <<>>) >>

VariantStores ==
    { Store(<<Spirit(t, <<f>> \o r, <<Slam>>), Wolf>>, <<>>) :
        t \in BOOLEAN, f \in FirstForks, r \in Runs(SiblingSpecs, MaxVersions - 1) }
    \cup { Store(<<Spirit(t, <<>>, <<Slam>>), Wolf>>, <<>>) : t \in BOOLEAN }

InitVariants == InitFrom(VariantStores)

ProcessMonsterVariants ==
    \E i \in 1..Len(creatures) :
        FinishValue(processMonsterVariants(heap, creatures[i]),
                    [op |-> "processMonsterVariants", arg |-> i], Snapshot)

NextVariants == ProcessMonsterVariants

SpecVariants == InitVariants /\ [][NextVariants]_vars

IsVariants == call.op = "processMonsterVariants"

\* the record the call was given, as it is after the call
Input == creatures[call.arg]
\* the members of the returned list
Result == IF IsRef(ret.v) THEN Elems(heap, ret.v) ELSE <<>>
\* 1 when the base is a member of the list, 0 for a template-only record
Offset == IF Truthy(PreField("_isVariantTemplate")) THEN 0 ELSE 1

\* C4: processMonsterVariants leaves its input as it was, and no
\* modification made for one variant shows in the base or in a sibling: the
\* _versions every member carries are those of the input before the call
C4_InputUnchanged ==
    IsVariants =>
        /\ View(heap, Input) = View(pre.heap, PreRecord)
        /\ \A j \in 1..Len(Result) :
              GetProp(heap, Result[j], "_versions") # Undef
              => View(heap, GetProp(heap, Result[j], "_versions")) = View(pre.heap, PreField("_versions"))

\* the member was made from the spec: it is marked as a variant and every
\* direct field of the spec is set on it
MadeFrom(h, member, spec) ==
    /\ GetProp(h, member, "_isVariant") = Bool(TRUE)
    /\ \A key \in SeqRange(OwnKeys(h, spec)) \ {"_mod"} :
          View(h, GetProp(h, member, key)) = View(h, GetProp(h, spec, key))

\* the list has one member per spec, in declaration order, after the base
\* when the record is not template-only
Census ==
    /\ Len(Result) = Len(Versions(pre.heap, PreRecord)) + Offset
    /\ \A j \in 1..Len(Versions(pre.heap, PreRecord)) :
          Len(Result) >= Offset + j /\ MadeFrom(heap, Result[Offset + j], Versions(heap, Input)[j])

\* C5 as stated: k records for a template-only input and k+1 otherwise, the
\* base first as a deep copy of the input, the variants in declaration
\* order; a record with no _versions gives the list of that record alone
C5_BaseIsDeepCopy ==
    (IsVariants /\ ~raised) =>
        IF ~IsArray(pre.heap, PreField("_versions"))
        THEN Len(Result) = 1 /\ View(heap, Result[1]) = View(pre.heap, PreRecord)
        ELSE /\ Census
             /\ Offset = 1 => /\ Len(Result) >= 1
                              /\ View(heap, Result[1]) = View(pre.heap, PreRecord)
                              /\ Shared(heap, Result[1], Input) = {}

\* C5 amended: the same list, whose first member for a record that is not
\* template-only is the input record itself and not a copy of it
C5_BaseIsInput ==
    (IsVariants /\ ~raised) =>
        IF ~IsArray(pre.heap, PreField("_versions"))
        THEN Result = <<Input>>
        ELSE /\ Census
             /\ Offset = 1 => Len(Result) >= 1 /\ Result[1] = Input

\* a record with two forks that is not template-only was expanded
C5_Witness ==
    /\ IsVariants /\ ~raised
    /\ Len(Versions(pre.heap, PreRecord)) = 2 /\ Offset = 1
    /\ Len(Result) = 3

Name(h, member) == View(h, GetProp(h, member, "name"))
Distinct(names) == \A i, j \in 1..Len(names) : i # j => names[i] # names[j]

NamesGiven ==
    /\ \A i \in 1..Len(Versions(pre.heap, PreRecord)) :
          "name" \in SeqRange(OwnKeys(pre.heap, Versions(pre.heap, PreRecord)[i]))
    /\ Distinct(VersionNames(pre.heap, PreRecord))
    /\ Offset = 1 => \A i \in 1..Len(Versions(pre.heap, PreRecord)) :
                        VersionNames(pre.heap, PreRecord)[i] # View(pre.heap, PreField("name"))

----------------------------------------------------------------------------
(* Copy resolution: processMonsterCopy called on the records of a store,   *)
(* and on what it returned.                                                *)

\* the base the copies name
Totem ==
    O(<< <<"id", W("a")>>, <<"name", W(BaseName)>>, <<"source", W("TCE")>>,
         <<"ac", Num(11)>>, <<"size", W("S")>>,
         <<"speed", O(<< <<"walk", Num(30)>> >>)>>,
         <<"type", O(<< <<"type", W("beast")>>, <<"tags", A(<<W("spirit")>>)>> >>)>>,
         <<"action", A(<<Slam>>)>>,
         <<"_versions", A(<<VariantSpec("Air", <<>>, << <<"ac", Num(13)>> >>)>>)>> >>)

Keen == Feature("Keen", <<"advantage">>)

\* the _copy block: the base it names is in the store or is not, and it may
\* name a template
CopyBlock(found, tpl) ==
    O((IF found THEN << <<"name", W(BaseName)>>, <<"source", W("TCE")>> >>
       ELSE << <<"name", W("Ghost")>>, <<"source", W("MM")>> >>)
      \o (IF tpl THEN << <<"_templates", A(<<O(<< <<"name", W("Gifted")>>, <<"source", W("TCE")>> >>)>>)>> >>
          ELSE <<>>))

ActionOptions == { <<>>, << <<"action", A(<<Bite>>)>> >>, << <<"action", Null>> >> }
SpeedOptions == { <<>>, << <<"speed", O(<< <<"fly", Num(60)>> >>)>> >>, << <<"speed", Num(40)>> >>,
                  << <<"speed", A(<<W("hover")>>)>> >> }
TypeOptions == { <<>>, << <<"type", O(<< <<"type", W("fey")>>, <<"tags", A(<<W("elder")>>)>> >>)>> >> }
VersionsOptions == { <<>>, << <<"_versions", A(<<VariantSpec("Land", <<>>, << <<"ac", Num(13)>> >>)>>)>> >> }

\* a record defined by _copy, with fields of its own
Override(found, tpl, fields) ==
    O(<< <<"id", W("b")>>, <<"name", W("Elder Spirit")>>, <<"source", W("TCE")>>,
         <<"_copy", CopyBlock(found, tpl)>>, <<"ac", Num(15)>>, <<"_note", W("draft")>>,
         <<"trait", A(<<Keen>>)>> >> \o fields)

CopyStores ==
    { Store(<<Totem, Override(found, tpl, a \o sp \o ty \o vs), Wolf>>, <<>>) :
        found \in BOOLEAN, tpl \in BOOLEAN, a \in ActionOptions, sp \in SpeedOptions,
        ty \in TypeOptions, vs \in VersionsOptions }

InitCopy == InitFrom(CopyStores)

\* processMonsterCopy(monster, sourceBooks, fetchMonsterFn) on a stored record
ProcessMonsterCopy ==
    \E i \in 1..Len(creatures) :
        FinishValue(processMonsterCopy(heap, creatures[i],
                                       LAMBDA name, source : FetchMonster(heap, creatures, name, source)),
                    [op |-> "processMonsterCopy", arg |-> i, again |-> FALSE], Snapshot)

\* processMonsterCopy on the record the previous call returned
ProcessMonsterCopyAgain ==
    /\ call.op = "processMonsterCopy" /\ ~call.again /\ ~raised /\ IsRef(ret.v)
    /\ FinishValue(processMonsterCopy(heap, ret.v,
                                      LAMBDA name, source : FetchMonster(heap, creatures, name, source)),
                   [op |-> "processMonsterCopy", arg |-> call.arg, again |-> TRUE], SnapshotWithRet)

NextCopy == ProcessMonsterCopy \/ ProcessMonsterCopyAgain

SpecCopy == InitCopy /\ [][NextCopy]_vars

IsCopy == call.op = "processMonsterCopy" /\ ~call.again
IsCopyAgain == call.op = "processMonsterCopy" /\ call.again

\* the key of record rec in heap h, for the records of the two resolutions
First(key) == GetProp(pre.heap, pre.ret.v, key)
Second(key) == GetProp(heap, ret.v, key)

\* the base the first output names, as the second resolution found it
BaseOfFirst ==
    FetchMonster(pre.heap, pre.creatures,
                 GetProp(pre.heap, First("_copy"), "name"), GetProp(pre.heap, First("_copy"), "source"))

\* C7: resolving the output of a resolution again gives the first output
C7_Idempotent ==
    (IsCopyAgain /\ ~raised) => View(heap, ret.v) = View(pre.heap, pre.ret.v)

\* the key is merged by concatenation: an array in the base and in the
\* first output, under a key that the merge does not skip
Concatenated(key) ==
    /\ Truthy(First("_copy")) /\ Truthy(BaseOfFirst)
    /\ key \notin UnderscoreKeys \ {"_copy", "_versions"}
    /\ IsArray(pre.heap, GetProp(pre.heap, BaseOfFirst, key))
    /\ IsArray(pre.heap, First(key))

ElemViews(h, arr) == [i \in 1..Len(Elems(h, arr)) |-> View(h, Elems(h, arr)[i])]

\* C7 amended: the second output has the keys of the first and equals it on
\* every field but those merged as arrays, which hold the elements of the
\* base followed by those of the first output
C7_SecondAddsBaseArrays ==
    (IsCopyAgain /\ ~raised) =>
        /\ SeqRange(OwnKeys(heap, ret.v)) = SeqRange(OwnKeys(pre.heap, pre.ret.v))
        /\ \A key \in SeqRange(OwnKeys(heap, ret.v)) :
              IF Concatenated(key)
              THEN /\ IsArray(heap, Second(key))
                   /\ ElemViews(heap, Second(key))
                        = ElemViews(pre.heap, GetProp(pre.heap, BaseOfFirst, key))
                          \o ElemViews(pre.heap, First(key))
              ELSE View(heap, Second(key)) = View(pre.heap, First(key))

\* an output that holds actions of the base and of the copy was resolved again
C7_Witness ==
    /\ IsCopyAgain /\ ~raised
    /\ Concatenated("action")
    /\ Len(Elems(heap, Second("action"))) = 3

\* a record with every array field taken as the set of its elements
SetView(h, rec) ==
    [key \in SeqRange(OwnKeys(h, rec)) |->
        IF IsArray(h, GetProp(h, rec, key))
        THEN [set |-> SeqRange(ElemViews(h, GetProp(h, rec, key)))]
        ELSE View(h, GetProp(h, rec, key))]

\* C8: the second output equals the first when every array field is
\* compared as a set of elements and every other field exactly
C8_IdempotentAsSets ==
    (IsCopyAgain /\ ~raised) => SetView(heap, ret.v) = SetView(pre.heap, pre.ret.v)

\* the second resolution made an array longer and left its set of elements
C8_Witness ==
    /\ IsCopyAgain /\ ~raised
    /\ Concatenated("_versions")
    /\ Len(Elems(heap, Second("_versions"))) > Len(Elems(pre.heap, First("_versions")))

\* the base named by the stored record of the call is not in the store
BaseMissing ==
    ~Truthy(FetchMonster(pre.heap, pre.creatures,
                         GetProp(pre.heap, PreField("_copy"), "name"),
                         GetProp(pre.heap, PreField("_copy"), "source")))

\* C9: with the base missing the call returns a record equal to the
\* override and does not raise; a record without _copy is returned as it is
C9_MissingBaseOrNoCopy ==
    IsCopy =>
        /\ (Truthy(PreField("_copy")) /\ BaseMissing)
             => ~raised /\ IsRef(ret.v) /\ View(heap, ret.v) = View(pre.heap, PreRecord)
        /\ ~Truthy(PreField("_copy"))
             => ~raised /\ ret.v = Input /\ View(heap, ret.v) = View(pre.heap, PreRecord)

\* a record whose base is not in the store was resolved
C9_Witness ==
    /\ IsCopy /\ Truthy(PreField("_copy")) /\ BaseMissing
    /\ ~raised /\ IsRef(ret.v)

----------------------------------------------------------------------------
(* Templates: applyTemplate called on the records of a store with the      *)
(* templates of the store.                                                 *)

\* longest array a call of applyTemplate may find in the heap
MaxItems == 1

RenameSlam == O(<< <<"mode", W("renameArr")>>,
                   <<"renames", O(<< <<"rename", W("Slam")>>, <<"with", W("Smash")>> >>)>> >>)

Template(name, apply) ==
    O(<< <<"name", W(name)>> >> \o (IF apply = <<>> THEN <<>> ELSE << <<"apply", O(apply)>> >>))

Gifted == Template("Gifted", << <<"_root", O(<< <<"size", W("L")>>, <<"trait", A(<<Keen>>)>> >>)>>,
                                <<"_mod", O(<< <<"trait", A(<<AppendBite>>)>> >>)>> >>)
Biting == Template("Biting", << <<"_mod", O(<< <<"action", A(<<AppendBite>>)>> >>)>> >>)
Smashing == Template("Smashing", << <<"_mod", O(<< <<"action", A(<<RenameSlam>>)>> >>)>> >>)
Armored == Template("Armored", << <<"_root", O(<< <<"ac", Num(20)>> >>)>> >>)
Plain == Template("Plain", <<>>)

TemplateStores ==
    { Store(<<Totem, Override(TRUE, TRUE, a)>>, <<Gifted, Biting, Smashing, Armored, Plain>>) :
        a \in ActionOptions }

InitTemplate == InitFrom(TemplateStores)

\* no array of the heap is longer than n
Short(h, n) == \A i \in 1..Len(h) : h[i].k = "arr" => Len(h[i].el) <= n

\* applyTemplate(monster, template) on a stored record and a stored template
ApplyTemplate ==
    /\ Short(heap, MaxItems)
    /\ \E i \in 1..Len(creatures), t \in 1..Len(templates) :
          FinishValue(applyTemplate(heap, creatures[i], templates[t]),
                      [op |-> "applyTemplate", arg |-> i, template |-> t], Snapshot)

NextTemplate == ApplyTemplate \/ ProcessMonsterCopy

SpecTemplate == InitTemplate /\ [][NextTemplate]_vars

\* C10: processMonsterCopy and applyTemplate leave the stored records (the
\* override and the base) and the templates structurally as they were
C10_InputsUnchanged ==
    call.op \in {"processMonsterCopy", "applyTemplate"} =>
        /\ \A i \in 1..Len(creatures) : View(heap, creatures[i]) = View(pre.heap, pre.creatures[i])
        /\ \A t \in 1..Len(templates) : View(heap, templates[t]) = View(pre.heap, pre.templates[t])

----------------------------------------------------------------------------
(* Modifications: applyModifications called on a stored record with the    *)
(* _mod block of a stored template, once and then once more.               *)

\* longest list of items of an appendIfNotExistsArr modification
MaxAdded == 2
\* longest size list of a stored record
MaxSizes == 2

\* the record that is modified
Beast(fields) == O(<< <<"name", W("Wolf")>>, <<"hp", Num(11)>> >> \o fields)

\* a template whose _mod block has one entry
ModTemplate(property, modifications) ==
    Template("Mod", << <<"_mod", O(<< <<property, modifications>> >>)>> >>)

\* the shapes of the target property: absent, string, number, plain object,
\* array of strings, array of objects, array holding null
TargetShapes ==
    { <<>>,
      << <<"trait", W("Keen")>> >>,
      << <<"trait", Num(3)>> >>,
      << <<"trait", Keen>> >>,
      << <<"trait", A(<<W("Keen"), W("Pack")>>)>> >>,
      << <<"trait", A(<<Slam, Keen>>)>> >>,
      << <<"trait", A(<<Null, Slam>>)>> >>,
      << <<"trait", A(<<Slam, Null>>)>> >> }

IfAbsent(items) == O(<< <<"mode", W("appendIfNotExistsArr")>>, <<"items", items>> >>)
ItemChoices == {Bite, Slam, W("Keen"), Null}
ItemLists == {A(q) : q \in SeqsUpTo(ItemChoices, MaxAdded)} \cup {Bite, W("Pack")}

RemoveNames == O(<< <<"mode", W("removeArr")>>, <<"names", A(<<W("Slam"), W("Keen")>>)>> >>)
ReplaceCreature == O(<< <<"mode", W("replaceTxt")>>, <<"replace", W("creature")>>, <<"with", W("target")>> >>)
ReplaceSlam == O(<< <<"mode", W("replaceArr")>>, <<"replace", W("Slam")>>, <<"items", Bite>> >>)

\* the modifications of the target property: lists of array operations, and
\* the two operations that are written without a list
TargetOps ==
    {A(<<op>>) : op \in {RemoveSlam, RemoveNames, AppendBite, PrependBite, RenameSlam, ReplaceCreature}}
    \cup {A(<<IfAbsent(items)>>) : items \in ItemLists}
    \cup {ReplaceSlam, SetProp(<<"trait", "note">>, W("x")), SetProp(<<"hp">>, Num(9))}

Darkvision == Str(<<"darkvision", "60", "ft.">>)
SenseShapes ==
    { <<>>, << <<"senses", A(<<Darkvision>>)>> >>, << <<"senses", A(<<>>)>> >>,
      << <<"senses", Darkvision>> >>, << <<"senses", W("blindsight")>> >>, << <<"senses", Num(60)>> >>,
      << <<"senses", O(<< <<"darkvision", Num(60)>> >>)>> >> }
AddSenses(senses) == O(<< <<"mode", W("addSenses")>>, <<"senses", senses>> >>)
SenseOps ==
    { AddSenses(Darkvision), AddSenses(A(<<Darkvision, W("tremorsense")>>)),
      AddSenses(O(<< <<"type", W("darkvision")>>, <<"range", Num(60)>> >>)),
      AddSenses(A(<<O(<< <<"range", Num(60)>> >>), Null>>)) }

SkillShapes ==
    { <<>>, << <<"skill", O(<< <<"perception", W("+5")>> >>)>> >>, << <<"skill", O(<<>>)>> >>,
      << <<"skill", W("perception")>> >>, << <<"skill", Num(2)>> >>, << <<"skill", A(<<W("perception")>>)>> >>,
      << <<"skill", O(<< <<"perception", Num(0)>> >>)>> >>,
      << <<"skill", O(<< <<"perception", W("+0")>>, <<"stealth", Num(4)>> >>)>> >> }
AddSkills(skills) == O(<< <<"mode", W("addSkills")>>, <<"skills", O(skills)>> >>)
SkillOps ==
    { AddSkills(<< <<"perception", Num(3)>> >>), AddSkills(<< <<"stealth", Num(0)>>, <<"perception", Num(3)>> >>),
      AddSkills(<<>>) }

SizeCodes == {W("T"), W("S"), W("M"), W("L"), W("H"), W("G")}
SizeShapes ==
    { <<>>, << <<"size", Num(2)>> >> }
    \cup { << <<"size", c>> >> : c \in SizeCodes }
    \cup { << <<"size", A(q)>> >> : q \in SeqsUpTo(SizeCodes, MaxSizes) }
MaxSize(max) == O(<< <<"mode", W("maxSize")>>, <<"max", max>> >>)

\* a store holds the record and the template whose _mod block is applied
ModStores ==
    { Store(<<Beast(f)>>, <<ModTemplate("trait", op)>>) : f \in TargetShapes, op \in TargetOps }
    \cup { Store(<<Beast(f)>>, <<ModTemplate("_", A(<<op>>))>>) : f \in SenseShapes, op \in SenseOps }
    \cup { Store(<<Beast(f)>>, <<ModTemplate("_", A(<<op>>))>>) : f \in SkillShapes, op \in SkillOps }
    \cup { Store(<<Beast(f)>>, <<ModTemplate("_", A(<<MaxSize(m)>>))>>) : f \in SizeShapes, m \in SizeCodes }

InitMods == InitFrom(ModStores)

\* template.apply._mod
ModBlock(h, template) == GetProp(h, GetProp(h, template, "apply"), "_mod")

\* the state after a call that returned nothing
FinishVoid(r, c) == Finish(r.h, c, Undef, NoDoc, r.err, Snapshot)

\* applyModifications(monster, template.apply._mod) on a stored record
ApplyModifications ==
    /\ call = NoCall
    /\ \E i \in 1..Len(creatures), t \in 1..Len(templates) :
          FinishVoid(applyModifications(heap, creatures[i], ModBlock(heap, templates[t])),
                     [op |-> "applyModifications", arg |-> i, template |-> t, again |-> FALSE])

\* the same call once more, on the record the first call left
ApplyModificationsAgain ==
    /\ call.op = "applyModifications" /\ ~call.again /\ ~raised
    /\ FinishVoid(applyModifications(heap, creatures[call.arg], ModBlock(heap, templates[call.template])),
                  [call EXCEPT !.again = TRUE])

NextMods == ApplyModifications \/ ApplyModificationsAgain

SpecMods == InitMods /\ [][NextMods]_vars

IsMods == call.op = "applyModifications"
\* the entry of the _mod block: its key, and its only or first operation
Property == OwnKeys(heap, ModBlock(heap, templates[call.template]))[1]
Modifications == GetProp(heap, ModBlock(heap, templates[call.template]), Property)
Operation == IF IsArray(heap, Modifications) THEN Elems(heap, Modifications)[1] ELSE Modifications
Mode == GetProp(heap, Operation, "mode")
\* the record, and its field key, before and after the call
Monster == creatures[call.arg]
Before(key) == GetProp(pre.heap, pre.creatures[call.arg], key)
After(key) == GetProp(heap, Monster, key)
RecordUnchanged == View(heap, Monster) = View(pre.heap, pre.creatures[call.arg])

\* the target property is there and is not an array, and the operation
\* works on arrays
Inapplicable ==
    /\ Property # "_"
    /\ Mode # W("setProp")
    /\ Truthy(Before(Property))
    /\ ~IsArray(pre.heap, Before(Property))

\* C11: applyModifications returns normally whatever the shape of the target
\* property, of senses, of skill and of size, and an operation whose target
\* does not support its mode leaves the record as it was
C11_NeverRaises ==
    IsMods => /\ ~raised
              /\ Inapplicable => RecordUnchanged

IsModsAgain == IsMods /\ call.again
IsIfAbsent == Property = "trait" /\ Mode = W("appendIfNotExistsArr")

\* the entries the call appended to the target array
Added ==
    IF ~IsArray(heap, After(Property)) THEN <<>>
    ELSE SubSeq(Elems(heap, After(Property)),
                (IF IsArray(pre.heap, Before(Property)) THEN Len(Elems(pre.heap, Before(Property))) ELSE 0) + 1,
                Len(Elems(heap, After(Property))))

\* C12: applying the same appendIfNotExistsArr operation a second time leaves
\* the array as the first application left it, and the entries one
\* application adds have names (or values) that differ from one another
C12_AppendIfAbsentIdempotent ==
    IsMods /\ IsIfAbsent /\ ~raised =>
        /\ call.again => View(heap, After(Property)) = View(pre.heap, Before(Property))
        /\ \A i, j \in 1..Len(Added) :
              i # j => ItemName(heap, Added[i]) # ItemName(heap, Added[j])

\* the operation was applied twice and the array holds two of its items
C12_Witness ==
    /\ IsModsAgain /\ IsIfAbsent /\ ~raised
    /\ IsArray(heap, After(Property))
    /\ \E i, j \in 1..Len(Elems(heap, After(Property))) :
          /\ i # j
          /\ IsRef(Elems(heap, After(Property))[i])
          /\ IsRef(Elems(heap, After(Property))[j])
          /\ {Elems(heap, After(Property))[i], Elems(heap, After(Property))[j]}
                \subseteq SeqRange(AsList(heap, GetProp(heap, Operation, "items")))

\* the place of a size code in the order T < S < M < L < H < G
Rank(code) == CHOOSE n \in 1..6 : <<W("T"), W("S"), W("M"), W("L"), W("H"), W("G")>>[n] = code
Codes(h, size) == IF IsArray(h, size) THEN Elems(h, size) ELSE <<size>>
Max == GetProp(heap, Operation, "max")
IsMaxSize ==
    /\ IsMods /\ ~call.again /\ Property = "_" /\ Mode = W("maxSize")
    /\ \/ Before("size") \in SizeCodes
       \/ IsArray(pre.heap, Before("size"))

\* C13: after maxSize with max m every size code of the record is at most m;
\* the codes that were at most m are kept, and a list whose codes all exceed
\* m becomes [m]
C13_SizeAtMostMax ==
    IsMaxSize =>
        /\ ~raised
        /\ \A i \in 1..Len(Codes(heap, After("size"))) :
              Rank(Codes(heap, After("size"))[i]) <= Rank(Max)
        /\ \A i \in 1..Len(Codes(pre.heap, Before("size"))) :
              Rank(Codes(pre.heap, Before("size"))[i]) <= Rank(Max)
                 => Codes(pre.heap, Before("size"))[i] \in SeqRange(Codes(heap, After("size")))
        /\ (/\ IsArray(pre.heap, Before("size"))
            /\ \A i \in 1..Len(Codes(pre.heap, Before("size"))) :
                  Rank(Codes(pre.heap, Before("size"))[i]) > Rank(Max))
              => Codes(heap, After("size")) = <<Max>>

----------------------------------------------------------------------------
(* Markup expansion: parseFormattingTags called on a text, and then on the *)
(* text it returned.                                                        *)

\* deepest nesting of directives in a text
MaxDepth == 2

\* what a directive is given: nothing, a word, digits, a range
Words == { <<>>, <<"mw">>, <<"5">>, <<"5", "-", "6">>, <<"PB">>, <<"fire">>, <<"summonSpellLevel">> }

\* the texts with directives nested at most d deep
RECURSIVE Nested(_)
Nested(d) ==
    IF d = 0 THEN Words
    ELSE LET inner == Nested(d - 1) IN inner \cup {Tag(open, arg) : open \in Opens, arg \in inner}

Texts ==
    {Str(t) : t \in Nested(MaxDepth)}
    \cup {Str(<<"adds", " ">> \o t \o <<" ", "damage">>) : t \in Nested(MaxDepth - 1)}
    \cup {Undef, Null, Num(5)}

\* the context renderCreatureStatBlock builds without options, one with
\* both values given, and none
Contexts ==
    { NoContext,
      [proficiencyBonus |-> W("PB"), spellLevel |-> W("the spell's level")],
      [proficiencyBonus |-> Num(3), spellLevel |-> Num(4)] }

TextStores == { [heap |-> <<>>, creatures |-> <<t>>, templates |-> <<>>] : t \in Texts }

InitText == InitFrom(TextStores)

\* parseFormattingTags(text, context) on a stored text
ParseFormattingTags ==
    /\ call = NoCall
    /\ \E i \in 1..Len(creatures), context \in Contexts :
          Finish(heap, [op |-> "parseFormattingTags", arg |-> i, context |-> context, again |-> FALSE],
                 parseFormattingTags(creatures[i], context), NoDoc, FALSE, Snapshot)

\* parseFormattingTags on the text the previous call returned, same context
ParseFormattingTagsAgain ==
    /\ call.op = "parseFormattingTags" /\ ~call.again
    /\ Finish(heap, [call EXCEPT !.again = TRUE],
              parseFormattingTags(ret.v, call.context), NoDoc, FALSE, SnapshotWithRet)

NextText == ParseFormattingTags \/ ParseFormattingTagsAgain

SpecText == InitText /\ [][NextText]_vars

IsParse == call.op = "parseFormattingTags" /\ ~call.again
IsParseAgain == call.op = "parseFormattingTags" /\ call.again
TextGiven == pre.creatures[call.arg]

\* C14: expanding an expanded text changes nothing
C14_ExpansionIdempotent ==
    IsParseAgain => ret.v = pre.ret.v

\* a directive without directives inside, from position i to position j
FlatTag(s, i, j) ==
    /\ i < j /\ s[i] \in Opens /\ s[j] = "}"
    /\ \A n \in (i + 1)..(j - 1) : s[n] \notin Opens \cup {"}"}

AllDigits(arg) == arg # <<>> /\ \A n \in 1..Len(arg) : arg[n] \in DigitTokens

\* the directive is of a recognised family and its argument fits the rule
\* of the family
Fits(open, arg) ==
    CASE open = "{@atk" -> arg \in {<<"mw">>, <<"rw">>, <<"ms">>, <<"rs">>}
      [] open \in {"{@hit", "{@dc"} -> AllDigits(arg)
      [] open \in {"{@damage", "{@condition"} -> arg # <<>>
      [] open \in {"{@hitYourSpellAttack", "{@h"} -> arg = <<>>
      [] open = "{@recharge" ->
            \/ arg = <<>>
            \/ AllDigits(arg)
            \/ \E n \in 2..(Len(arg) - 1) :
                  arg[n] = "-" /\ AllDigits(SubSeq(arg, 1, n - 1)) /\ AllDigits(SubSeq(arg, n + 1, Len(arg)))
      [] OTHER -> FALSE

\* C15: parseFormattingTags returns a string and does not raise, and a
\* directive of no recognised family, or with an argument that does not fit
\* the rule of its family, is in the text returned as it was given
C15_TotalAndPassThrough ==
    IsParse =>
        /\ ~raised
        /\ ret.v.k = "str"
        /\ TextGiven.k = "str" =>
              \A i, j \in 1..Len(TextGiven.s) :
                  FlatTag(TextGiven.s, i, j) /\ ~Fits(TextGiven.s[i], SubSeq(TextGiven.s, i + 2, j - 1))
                     => Includes(ret.v.s, SubSeq(TextGiven.s, i, j))

----------------------------------------------------------------------------
(* Field normalizers of the data manager and the formatters of the         *)
(* display.  A number is a whole number Num(n), a fraction or NaN; the     *)
(* text of a rating is written character by character.                     *)

RECURSIVE GCD(_, _)
GCD(a, b) == IF b = 0 THEN a ELSE GCD(b, a % b)

\* the number n/d
Frac(n, d) ==
    IF n % d = 0 THEN Num(n \div d)
    ELSE [k |-> "num", n |-> n \div GCD(n, d), d |-> d \div GCD(n, d)]
NaN == [k |-> "num", n |-> 0, nan |-> TRUE]
IsWhole(v) == v.k = "num" /\ DOMAIN v = {"k", "n"}

Digit == <<"0", "1", "2", "3", "4", "5", "6", "7", "8", "9">>
IsDigit(c) == \E d \in 1..10 : Digit[d] = c
DigitValue(c) == (CHOOSE d \in 1..10 : Digit[d] = c) - 1

\* the whole number written by the digits
RECURSIVE Value(_)
Value(cs) == IF cs = <<>> THEN 0 ELSE 10 * Value(SubSeq(cs, 1, Len(cs) - 1)) + DigitValue(cs[Len(cs)])

RECURSIVE Power10(_)
Power10(n) == IF n = 0 THEN 1 ELSE 10 * Power10(n - 1)

CharRun(cs, i) == RunFrom(cs, LAMBDA c : IsDigit(c), i)

\* parseFloat of an unsigned text whose whole part has n digits and whose
\* part after the point has m digits
parsedFloat(cs, n, m) ==
    IF n = 0 /\ m = 0 THEN NaN
    ELSE IF m = 0 THEN Num(Value(SubSeq(cs, 1, n)))
    ELSE Frac(Value(SubSeq(cs, 1, n)) * Power10(m) + Value(SubSeq(cs, n + 2, n + 1 + m)), Power10(m))

\* parseFloat(text): the longest leading part that reads as a number
parseFloat(cs) ==
    parsedFloat(cs, CharRun(cs, 1),
                IF At(cs, CharRun(cs, 1) + 1, ".") THEN CharRun(cs, CharRun(cs, 1) + 2) ELSE 0)

\* the digits of a whole number that is not negative
RECURSIVE Digits(_)
Digits(n) == IF n < 10 THEN <<Digit[n + 1]>> ELSE Digits(n \div 10) \o <<Digit[(n % 10) + 1]>>

\* the digits after the point of n/d, n < d
RECURSIVE Decimals(_, _)
Decimals(n, d) == IF n = 0 THEN <<>> ELSE <<Digit[((10 * n) \div d) + 1]>> \o Decimals((10 * n) % d, d)

\* String(v) character by character, for a number that is not negative
Chars(v) ==
    IF v.k = "str" THEN v.s
    ELSE IF v.k # "num" THEN Tokens(v)
    ELSE IF "nan" \in DOMAIN v THEN <<"N", "a", "N">>
    ELSE IF IsWhole(v) THEN (IF v.n < 0 THEN <<"-">> \o Digits(-v.n) ELSE Digits(v.n))
    ELSE Digits(v.n \div v.d) \o <<".">> \o Decimals(v.n % v.d, v.d)

Eighth == Str(<<"1", "/", "8">>)
Quarter == Str(<<"1", "/", "4">>)
Half == Str(<<"1", "/", "2">>)

\* the rating a text stands for: lines 1553-1558 and 948-953
ratingOf(text) ==
    CASE text = Eighth -> Frac(1, 8)
      [] text = Quarter -> Frac(1, 4)
      [] text = Half -> Frac(1, 2)
      [] OTHER -> IF Truthy(parseFloat(text.s)) THEN parseFloat(text.s) ELSE Num(0)

\* getChallengeRating(monster), cr the value of monster.cr (lines 1545-1564)
RECURSIVE challengeRatingOf(_, _)
challengeRatingOf(h, cr) ==
    IF ~Truthy(cr) THEN Num(0)
    ELSE IF cr.k = "num" THEN cr
    ELSE IF cr.k = "str" THEN ratingOf(cr)
    ELSE IF IsRef(cr) /\ Truthy(GetProp(h, cr, "cr")) THEN challengeRatingOf(h, GetProp(h, cr, "cr"))
    ELSE Num(0)

getChallengeRating(h, monster) == challengeRatingOf(h, GetProp(h, monster, "cr"))

\* lines 961-966: the rating of a wrapped value
wrappedRating(inner) ==
    IF inner.k = "str" THEN ratingOf(inner)
    ELSE IF Truthy(inner) THEN inner ELSE Num(0)

\* extract5eToolsCR(monster) (lines 938-968)
extract5eToolsCR(h, monster) ==
    Bind(GetProp(h, monster, "cr"), LAMBDA cr :
        IF Nullish(cr) THEN Num(0)
        ELSE IF cr.k \in {"num"} THEN cr
        ELSE IF cr.k = "str" THEN ratingOf(cr)
        ELSE IF IsRef(cr) /\ (IsPlainObject(h, cr) /\ \E i \in 1..Len(OwnKeys(h, cr)) : OwnKeys(h, cr)[i] = "cr")
        THEN wrappedRating(GetProp(h, cr, "cr"))
        ELSE Num(0))

\* the rating shown as it is stored
formatCR_Plain(cr) == IF Nullish(cr) THEN [v |-> Undef, err |-> TRUE] ELSE [v |-> Str(Chars(cr)), err |-> FALSE]

\* formatCR(cr) of the creature list (part_000 lines 2991-2999)
formatCR(cr) ==
    Bind(parseFloat(Chars(cr)), LAMBDA crNum :
        IF crNum = Frac(1, 8) THEN [v |-> Eighth, err |-> FALSE]
        ELSE IF crNum = Frac(1, 4) THEN [v |-> Quarter, err |-> FALSE]
        ELSE IF crNum = Frac(1, 2) THEN [v |-> Half, err |-> FALSE]
        ELSE IF Nullish(cr) THEN [v |-> Undef, err |-> TRUE]
        ELSE [v |-> Str(Chars(cr)), err |-> FALSE])

\* 'ac' in value, for a value that is an object
HasKey(h, v, key) == IsPlainObject(h, v) /\ \E i \in 1..Len(OwnKeys(h, v)) : OwnKeys(h, v)[i] = key

\* getArmorClass(monster), ac the value of monster.ac and first its first
\* element when it is an array (lines 1595-1618)
armorClassOf(h, ac, first) ==
    IF ~Truthy(ac) THEN [v |-> Num(10), err |-> FALSE]
    ELSE IF ac.k = "num" THEN [v |-> ac, err |-> FALSE]
    ELSE IF IsArray(h, ac) /\ first.k = "num" THEN [v |-> first, err |-> FALSE]
    ELSE IF IsArray(h, ac) /\ first.k = "null" THEN [v |-> Undef, err |-> TRUE]
    ELSE IF IsArray(h, ac) /\ IsRef(first) /\ Truthy(GetProp(h, first, "ac"))
    THEN [v |-> GetProp(h, first, "ac"), err |-> FALSE]
    ELSE IF IsRef(ac) /\ Truthy(GetProp(h, ac, "ac")) THEN [v |-> GetProp(h, ac, "ac"), err |-> FALSE]
    ELSE [v |-> Num(10), err |-> FALSE]

FirstOf(h, v) == IF IsArray(h, v) THEN Pick(Elems(h, v), 1) ELSE Undef

getArmorClass(h, monster) ==
    armorClassOf(h, GetProp(h, monster, "ac"), FirstOf(h, GetProp(h, monster, "ac")))

\* extract5eToolsAC(monster) (lines 1013-1044)
extractedAC(h, ac, first) ==
    IF ~Truthy(ac) THEN Num(10)
    ELSE IF ac.k = "num" THEN ac
    ELSE IF IsArray(h, ac) /\ Len(Elems(h, ac)) = 0 THEN Num(10)
    ELSE IF IsArray(h, ac) /\ first.k = "num" THEN first
    ELSE IF IsArray(h, ac) /\ HasKey(h, first, "ac") THEN GetProp(h, first, "ac")
    ELSE IF HasKey(h, ac, "ac") THEN GetProp(h, ac, "ac")
    ELSE Num(10)

extract5eToolsAC(h, monster) ==
    extractedAC(h, GetProp(h, monster, "ac"), FirstOf(h, GetProp(h, monster, "ac")))

\* text.trim() for a text whose blanks are tokens
RECURSIVE Trim(_)
Trim(s) ==
    IF s = <<>> THEN s
    ELSE IF Head(s) = " " THEN Trim(Tail(s))
    ELSE IF s[Len(s)] = " " THEN Trim(SubSeq(s, 1, Len(s) - 1))
    ELSE s

AlignmentLetters == {"L", "N", "C", "G", "E", "U", "A"}
Has(el, letter) == \E i \in 1..Len(el) : el[i] = W(letter)

\* the composition of lines 3943-3959 and 1277-1293 from the words of the
\* function: the law and chaos part, then the good and evil part
composed(el, words, lawPart) ==
    Trim(lawPart
         \o (IF Has(el, "G") THEN <<words.G>>
             ELSE IF Has(el, "E") THEN <<words.E>>
             ELSE IF Has(el, "N") /\ words.N \notin SeqRange(lawPart) THEN <<words.N>>
             ELSE <<>>))

alignmentOf(h, alignment, words, el) ==
    IF ~Truthy(alignment) THEN <<words.U>>
    ELSE IF alignment.k = "str"
    THEN (IF words.mapped /\ Len(alignment.s) = 1 /\ alignment.s[1] \in AlignmentLetters
          THEN <<words[alignment.s[1]]>> ELSE alignment.s)
    ELSE IF ~IsArray(h, alignment) THEN <<words.U>>
    ELSE IF Has(el, "U") THEN <<words.U>>
    ELSE IF Has(el, "A") THEN <<words.A>>
    ELSE composed(el, words,
                  IF Has(el, "L") THEN <<words.L, " ">>
                  ELSE IF Has(el, "C") THEN <<words.C, " ">>
                  ELSE IF Has(el, "N") /\ ~Has(el, "G") /\ ~Has(el, "E") THEN <<words.N>>
                  ELSE <<>>)

\* getAlignmentString(alignment) of the stat block (part_000 lines 3920-3963)
getAlignmentString(h, alignment) ==
    Str(alignmentOf(h, alignment,
                    [L |-> "lawful", N |-> "neutral", C |-> "chaotic", G |-> "good", E |-> "evil",
                     U |-> "unaligned", A |-> "any alignment", mapped |-> TRUE],
                    IF IsArray(h, alignment) THEN Elems(h, alignment) ELSE <<>>))

\* extractAlignment(monster) of the data manager (lines 1248-1297)
extractAlignment(h, monster) ==
    Str(alignmentOf(h, GetProp(h, monster, "alignment"),
                    [L |-> "Lawful", N |-> "Neutral", C |-> "Chaotic", G |-> "Good", E |-> "Evil",
                     U |-> "Unaligned", A |-> "Any alignment", mapped |-> FALSE],
                    IF IsArray(h, GetProp(h, monster, "alignment"))
                    THEN Elems(h, GetProp(h, monster, "alignment")) ELSE <<>>))

\* highest whole-number rating of a stored record
MaxRating == 11
\* highest armor class of a stored record
MaxArmor == 2
\* longest alignment list of a stored record
MaxLetters == 2

RatingTexts ==
    {Eighth, Quarter, Half} \cup {Str(Digits(n)) : n \in 0..MaxRating}
    \cup {Str(<<"0", ".", "5">>), Str(<<"1", "/", "3">>), Str(<<"x">>)}
RatingValues == RatingTexts \cup {Num(n) : n \in 0..MaxRating} \cup {Frac(1, 2), Frac(1, 8)}
RatingShapes ==
    { <<>>, << <<"cr", Null>> >>, << <<"cr", Bool(TRUE)>> >>, << <<"cr", O(<<>>)>> >> }
    \cup { << <<"cr", v>> >> : v \in RatingValues }
    \cup { << <<"cr", O(<< <<"cr", v>>, <<"lair", W("3")>> >>)>> >> : v \in RatingValues }

ArmorValues == {Num(n) : n \in (-1)..MaxArmor}
ArmorShapes ==
    { <<>>, << <<"ac", W("15")>> >>, << <<"ac", A(<<>>)>> >>, << <<"ac", A(<<Null>>)>> >>,
      << <<"ac", A(<<W("15")>>)>> >>, << <<"ac", O(<< <<"special", W("15")>> >>)>> >>,
      << <<"ac", Bool(TRUE)>> >> }
    \cup { << <<"ac", v>> >> : v \in ArmorValues }
    \cup { << <<"ac", A(<<v>>)>> >> : v \in ArmorValues }
    \cup { << <<"ac", A(<<O(<< <<"ac", v>>, <<"from", A(<<W("natural armor")>>)>> >>)>>)>> >> : v \in ArmorValues }
    \cup { << <<"ac", O(<< <<"ac", v>> >>)>> >> : v \in ArmorValues }

Letters == {W("L"), W("N"), W("C"), W("G"), W("E"), W("U"), W("A"), W("X")}
AlignmentShapes ==
    { <<>>, << <<"alignment", W("L")>> >>, << <<"alignment", W("any")>> >>, << <<"alignment", Num(1)>> >> }
    \cup { << <<"alignment", A(q)>> >> : q \in SeqsUpTo(Letters, MaxLetters) }

FieldStores ==
    { Store(<<Beast(f)>>, <<>>) : f \in RatingShapes \cup ArmorShapes \cup AlignmentShapes }

InitFields == InitFrom(FieldStores)

\* the state after a call that returned the value v without touching the heap
FinishPure(v, err, c) == Finish(heap, c, v, NoDoc, err, SnapshotWithRet)
FinishResult(r, c) == FinishPure(r.v, r.err, c)

GetChallengeRating ==
    /\ call = NoCall
    /\ \E i \in 1..Len(creatures) :
          FinishPure(getChallengeRating(heap, creatures[i]), FALSE, [op |-> "getChallengeRating", arg |-> i])

Extract5eToolsCR ==
    /\ call = NoCall
    /\ \E i \in 1..Len(creatures) :
          FinishPure(extract5eToolsCR(heap, creatures[i]), FALSE, [op |-> "extract5eToolsCR", arg |-> i])

\* formatCR on the rating a normalizer returned
FormatCR ==
    /\ call.op \in {"getChallengeRating", "extract5eToolsCR"}
    /\ FinishResult(formatCR(ret.v), [op |-> "formatCR", arg |-> call.arg])

GetArmorClass ==
    /\ call = NoCall
    /\ \E i \in 1..Len(creatures) :
          FinishResult(getArmorClass(heap, creatures[i]), [op |-> "getArmorClass", arg |-> i])

Extract5eToolsAC ==
    /\ call = NoCall
    /\ \E i \in 1..Len(creatures) :
          FinishPure(extract5eToolsAC(heap, creatures[i]), FALSE, [op |-> "extract5eToolsAC", arg |-> i])

GetAlignmentString ==
    /\ call = NoCall
    /\ \E i \in 1..Len(creatures) :
          FinishPure(getAlignmentString(heap, GetProp(heap, creatures[i], "alignment")), FALSE,
                     [op |-> "getAlignmentString", arg |-> i])

ExtractAlignment ==
    /\ call = NoCall
    /\ \E i \in 1..Len(creatures) :
          FinishPure(extractAlignment(heap, creatures[i]), FALSE, [op |-> "extractAlignment", arg |-> i])

NextFields ==
    \/ GetChallengeRating \/ Extract5eToolsCR \/ FormatCR
    \/ GetArmorClass \/ Extract5eToolsAC
    \/ GetAlignmentString \/ ExtractAlignment

SpecFields == InitFields /\ [][NextFields]_vars

\* the field of the record the call was given
Given(key) == GetProp(heap, creatures[call.arg], key)

\* the integer an armor class of one of the four shapes stands for, Undef
\* for any other shape
WholeOr(v) == IF IsWhole(v) THEN v ELSE Undef
ArmorMeant(h, ac) ==
    IF ac.k = "num" THEN WholeOr(ac)
    ELSE IF IsArray(h, ac) /\ Len(Elems(h, ac)) = 1
    THEN (IF Elems(h, ac)[1].k = "num" THEN WholeOr(Elems(h, ac)[1])
          ELSE IF IsPlainObject(h, Elems(h, ac)[1]) THEN WholeOr(GetProp(h, Elems(h, ac)[1], "ac"))
          ELSE Undef)
    ELSE IF IsPlainObject(h, ac) THEN WholeOr(GetProp(h, ac, "ac"))
    ELSE Undef

IsArmor == call.op \in {"getArmorClass", "extract5eToolsAC"}

\* C17: both armor class normalizers return n for n, [n], [{ac: n, from}]
\* and {ac: n}, and 10 for an absent or any other shape
C17_ArmorClassShapeIndependent ==
    IsArmor =>
        /\ ~raised
        /\ ret.v = IF ArmorMeant(heap, Given("ac")) = Undef THEN Num(10) ELSE ArmorMeant(heap, Given("ac"))

IsRating == call.op \in {"getChallengeRating", "extract5eToolsCR"}
IsFormat == call.op = "formatCR"
\* the rating as written in the record, bare or wrapped as {cr: ...}
Written == IF IsPlainObject(heap, Given("cr")) THEN GetProp(heap, Given("cr"), "cr") ELSE Given("cr")
Fractions == {Eighth, Quarter, Half}
FractionOf(text) == CASE text = Eighth -> Frac(1, 8) [] text = Quarter -> Frac(1, 4) [] text = Half -> Frac(1, 2)
WholeRatings == {Num(n) : n \in 0..(MaxRating + 1)} \cup {Str(Digits(n)) : n \in 0..(MaxRating + 1)}

\* C18: "1/8", "1/4" and "1/2", bare or wrapped, are stored as 0.125, 0.25
\* and 0.5 and shown again as written; a whole-number rating is shown as
\* its decimal string; an absent rating is stored as 0
C18_RatingRoundTrip ==
    /\ IsRating /\ Written \in Fractions => ret.v = FractionOf(Written)
    /\ IsRating /\ Nullish(Given("cr")) => ret.v = Num(0)
    /\ IsFormat /\ Written \in Fractions => ~raised /\ ret.v = Written
    /\ IsFormat /\ Written \in WholeRatings => ~raised /\ ret.v = Str(Chars(Written))

\* a wrapped "1/4" was normalized and shown again as "1/4"
C18_Witness ==
    /\ IsFormat /\ IsPlainObject(heap, Given("cr")) /\ Written = Quarter
    /\ pre.ret.v = Frac(1, 4) /\ ret.v = Quarter

IsAlignment == call.op \in {"getAlignmentString", "extractAlignment"}
Lower == call.op = "getAlignmentString"
LawWord(el) ==
    IF Has(el, "L") THEN <<IF Lower THEN "lawful" ELSE "Lawful">>
    ELSE IF Has(el, "C") THEN <<IF Lower THEN "chaotic" ELSE "Chaotic">>
    ELSE <<>>
MoralWord(el) ==
    IF Has(el, "G") THEN <<IF Lower THEN "good" ELSE "Good">>
    ELSE IF Has(el, "E") THEN <<IF Lower THEN "evil" ELSE "Evil">>
    ELSE IF Has(el, "N") THEN <<IF Lower THEN "neutral" ELSE "Neutral">>
    ELSE <<>>
Joined(a, b) == IF a = <<>> \/ b = <<>> THEN a \o b ELSE a \o <<" ">> \o b

\* C19: for a list of letters, U gives "unaligned", else A gives "any
\* alignment", else the law or chaos word followed by the good, evil or
\* neutral word, and "neutral" when there is neither; never the empty text
C19_AlignmentComposed ==
    IsAlignment /\ IsArray(heap, Given("alignment")) =>
        /\ ret.v.s # <<>>
        /\ ret.v.s =
             IF Has(Elems(heap, Given("alignment")), "U") THEN <<IF Lower THEN "unaligned" ELSE "Unaligned">>
             ELSE IF Has(Elems(heap, Given("alignment")), "A")
             THEN <<IF Lower THEN "any alignment" ELSE "Any alignment">>
             ELSE IF LawWord(Elems(heap, Given("alignment"))) \o MoralWord(Elems(heap, Given("alignment"))) = <<>>
             THEN <<IF Lower THEN "neutral" ELSE "Neutral">>
             ELSE Joined(LawWord(Elems(heap, Given("alignment"))), MoralWord(Elems(heap, Given("alignment"))))

----------------------------------------------------------------------------
(* Sections: renderCreatureStatBlock called on records whose section lists *)
(* and detail fields have every shape.                                     *)

\* a feature text with the two dynamic values as bare words
Dynamic == Str(<<"adds", " ", "PB", " ", "at", " ", "summonSpellLevel">>)
Maul == O(<< <<"name", W("Maul")>>, <<"entries", A(<<Dynamic>>)>> >>)
Rend == O(<< <<"name", W("Rend")>>,
             <<"entries", A(<<O(<< <<"type", W("list")>>, <<"items", A(<<Dynamic>>)>> >>)>>)>> >>)
Caster == O(<< <<"name", W("Innate")>>, <<"headerEntries", A(<<Dynamic>>)>>,
               <<"will", A(<<W("light")>>)>> >>)

SectionKeys == {"trait", "action", "bonus", "reaction", "legendary"}
SectionShapes ==
    { <<>>, << <<"spellcasting", A(<<>>)>> >>, << <<"spellcasting", A(<<Caster>>)>> >>,
      << <<"spellcasting", O(<<>>)>> >> }
    \cup { << <<key, list>> >> :
             key \in SectionKeys,
             list \in {A(<<>>), A(<<Maul>>), A(<<Rend, Dynamic>>), A(<<Null>>), Dynamic, Null} }

DetailShapes ==
    { <<>>, << <<"passive", Num(11)>> >> }
    \cup { << <<key, v>> >> : key \in {"save", "skill"}, v \in {O(<<>>), O(<< <<"dex", W("+3")>> >>)} }
    \cup { << <<key, v>> >> :
             key \in {"resist", "immune", "vulnerable", "conditionImmune"},
             v \in {A(<<>>), A(<<W("fire")>>), W("fire"), A(<<O(<< <<"special", W("slashing")>> >>)>>)} }
    \cup { << <<key, v>> >> : key \in {"senses", "languages"}, v \in {A(<<>>), A(<<W("Common")>>)} }

SectionStores == { Store(<<Beast(f \o g)>>, <<>>) : f \in SectionShapes, g \in DetailShapes }

InitSections == InitFrom(SectionStores)

NextSections == RenderCreatureStatBlock

SpecSections == InitSections /\ [][NextSections]_vars

IsStatBlock == IsRender /\ ~raised /\ ret.d.doc = "statblock"
NoBonusGiven == call.options.proficiencyBonus = Undef /\ call.options.spellLevel = Undef

\* C16: in a stat block rendered without the proficiencyBonus and
\* spellLevel options the bare words PB and summonSpellLevel of the feature
\* texts are shown as "your proficiency bonus" and "the spell's level";
\* with the options, as the values given
C16_DynamicWordsShown ==
    IsStatBlock =>
        \A i \in 1..Len(ret.d.features) :
            /\ "PB" \notin SeqRange(ret.d.features[i].s)
            /\ "summonSpellLevel" \notin SeqRange(ret.d.features[i].s)
            /\ ~NoBonusGiven => /\ "your proficiency bonus" \notin SeqRange(ret.d.features[i].s)
                                /\ "the spell's level" \notin SeqRange(ret.d.features[i].s)

\* the field a header is made from
SourceOf(title) ==
    CASE title = "Saving Throws" -> "save"
      [] title = "Skills" -> "skill"
      [] title = "Damage Resistances" -> "resist"
      [] title = "Damage Immunities" -> "immune"
      [] title = "Damage Vulnerabilities" -> "vulnerable"
      [] title = "Condition Immunities" -> "conditionImmune"
      [] title = "Senses" -> "senses"
      [] title = "Languages" -> "languages"
      [] title = "Traits" -> "trait"
      [] title = "Spellcasting" -> "spellcasting"
      [] title = "Actions" -> "action"
      [] title = "Bonus Actions" -> "bonus"
      [] title = "Reactions" -> "reaction"
      [] title = "Legendary Actions" -> "legendary"

\* the source is there and holds something
Filled(h, v) == (v.k = "str" /\ v.s # <<>>) \/ (IsRef(v) /\ KeyCount(h, v) > 0)

\* C20: the stat block has the header of a section, or of a line of the
\* proficiency block, only when the source of that section is there and is
\* not empty
C20_HeaderOnlyWhenFilled ==
    IsStatBlock =>
        \A i \in 1..Len(ret.d.headers) :
            Filled(heap, GetProp(heap, creatures[call.arg], SourceOf(ret.d.headers[i])))

----------------------------------------------------------------------------
(* Requests that follow one another on the same store.                     *)

\* what the caller of displayCreatureDetails gets
AnswerOf(r) == [d |-> r.d, err |-> r.err]
Answer(h, store, id, variant, pv) ==
    AnswerOf(displayCreatureDetails(h, store, id, [variant |-> variant, processVariants |-> pv]))

\* an append of two features of the same name
TwinBite == O(<< <<"mode", W("appendArr")>>, <<"items", A(<<Bite, Bite>>)>> >>)

\* the variant specs of the records of a session
SessionSpecs ==
    << VariantSpec("Land", << <<"action", A(<<TwinBite, RenameBite>>)>> >>, <<>>),
       VariantSpec("Air", <<>>, << <<"ac", Num(13)>> >>),
       VariantSpec("Land", << <<"action", A(<<AppendBite, RenameBite>>)>> >>, <<>>) >>

SessionStores ==
    { Store(<<Spirit(t, vs, <<Slam>>), Elder, Wolf>>, <<>>) :
        t \in BOOLEAN, vs \in Runs(SessionSpecs, MaxVersions) }

InitSession == InitFrom(SessionStores)

NextSession == DisplayCreatureDetails

SpecSession == InitSession /\ [][NextSession]_vars

\* C21: whatever display request was served, every request that may follow
\* it is answered as it would have been answered before it; so the answer to
\* a request does not depend on the requests that came before
C21_NoSessionState ==
    (IsDisplay /\ heap # pre.heap)
    => \A id \in Ids, variant \in Selections, pv \in Flags :
          Answer(heap, creatures, id, variant, pv)
            = Answer(pre.heap, pre.creatures, id, variant, pv)

----------------------------------------------------------------------------
(* The display of a record defined as a copy                               *)

\* the copy-resolved form of the record the call is about
Resolved ==
    processMonsterCopy(pre.heap, PreRecord,
                       LAMBDA n, src : FetchMonster(pre.heap, pre.creatures, n, src))
ResolvedNames == VersionNames(Resolved.h, Resolved.v)

\* C22: for a stored record with _copy whose resolved form carries forks,
\* the display handles the forks on the resolved record: with no selection
\* the answer lists the forks of the resolved record, and with the name of
\* one of them it is the stat block of that variant
C22_CopyThenForks ==
    (/\ IsDisplay /\ StoredAt # 0
     /\ Truthy(PreField("_copy"))
     /\ ~Resolved.err /\ ResolvedNames # <<>>)
    => /\ ~raised
       /\ NoSelection => (ret.d.doc \in {"selection", "notice"} /\ ret.d.names = ResolvedNames)
       /\ (Truthy(Selected) /\ \E i \in 1..Len(ResolvedNames) : ResolvedNames[i] = Selected)
            => \E i \in 1..Len(ResolvedNames) :
                  /\ ResolvedNames[i] = Selected
                  /\ ShowsVariant(ret.d, Resolved.h, Versions(Resolved.h, Resolved.v)[i])

----------------------------------------------------------------------------
(* The order in which a variant is built: processMonsterVariants on a      *)
(* record whose first fork has a _mod block and direct fields of its own.  *)

\* the direct fields of the first fork; some name a field its _mod block
\* works on, one names the variant mark itself
DirectFields ==
    { <<>>,
      << <<"ac", Num(12)>> >>,
      << <<"action", A(<<Keen>>)>> >>,
      << <<"action", A(<<Keen>>)>>, <<"_isVariant", Bool(FALSE)>> >> }

OrderedForks ==
    { VariantSpec("Land", (IF ops = <<>> THEN <<>> ELSE << <<"action", A(ops)>> >>), direct) :
        ops \in SeqsUpTo(ArrayOps, MaxOps), direct \in DirectFields }

OrderStores ==
    { Store(<<Spirit(t, <<f>> \o r, <<Slam>>)>>, <<>>) :
        t \in BOOLEAN, f \in OrderedForks,
        r \in {<<>>, <<VariantSpec("Air", <<>>, << <<"ac", Num(13)>> >>)>>} }

InitOrder == InitFrom(OrderStores)

NextOrder == ProcessMonsterVariants

SpecOrder == InitOrder /\ [][NextOrder]_vars

\* the spec of the j-th fork before the call, and what its _mod block makes
\* of a deep copy of the base
PreSpec(j) == Versions(pre.heap, PreRecord)[j]
modified(c, mod) == IF Truthy(mod) THEN applyModifications(c.h, c.v, mod) ELSE Ok(c.h)
Modified(j) == modified(DeepCopy(pre.heap, PreRecord), GetProp(pre.heap, PreSpec(j), "_mod"))
ModifiedField(j, key) ==
    View(Modified(j).h, GetProp(Modified(j).h, DeepCopy(pre.heap, PreRecord).v, key))

DirectKeys(j) == SeqRange(OwnKeys(pre.heap, PreSpec(j))) \ {"_mod"}
\* the fields of the j-th variant, or of the modified copy, that its spec
\* does not give
OtherKeys(j) ==
    (SeqRange(OwnKeys(heap, Result[Offset + j]))
       \cup SeqRange(OwnKeys(Modified(j).h, DeepCopy(pre.heap, PreRecord).v)))
    \ (DirectKeys(j) \cup {"_isVariant", "_versions"})

\* C23: every variant carries the mark _isVariant; each direct field of its
\* spec other than _mod has the value the spec gives, whatever the _mod
\* block made of that field; every other field is what the _mod block made
\* of a deep copy of the base (the _versions list a variant carries is left
\* aside here)
C23_ModThenDirectThenMark ==
    (IsVariants /\ ~raised /\ IsArray(pre.heap, PreField("_versions")))
    => \A j \in 1..Len(Versions(pre.heap, PreRecord)) :
          /\ Len(Result) >= Offset + j
          /\ GetProp(heap, Result[Offset + j], "_isVariant") = Bool(TRUE)
          /\ \A key \in DirectKeys(j) \ {"_isVariant"} :
                View(heap, GetProp(heap, Result[Offset + j], key))
                  = View(heap, GetProp(heap, Versions(heap, Input)[j], key))
          /\ \A key \in OtherKeys(j) :
                View(heap, GetProp(heap, Result[Offset + j], key)) = ModifiedField(j, key)

\* a variant was built from a spec whose _mod block appends to the actions
\* and whose direct fields replace the actions
C23_Witness ==
    /\ IsVariants /\ ~raised
    /\ Len(Versions(pre.heap, PreRecord)) >= 1
    /\ "action" \in DirectKeys(1)
    /\ IsRef(GetProp(pre.heap, PreSpec(1), "_mod"))
    /\ Len(Result) > Offset
    /\ View(heap, GetProp(heap, Result[Offset + 1], "action"))
         = View(heap, GetProp(heap, Versions(heap, Input)[1], "action"))
    /\ ModifiedField(1, "action") # View(heap, GetProp(heap, Result[Offset + 1], "action"))

----------------------------------------------------------------------------
(* The merge of a copy into its base: processMonsterCopy on records whose  *)
(* base and whose own fields hold arrays and reserved keys.                *)

\* the base, with or without reserved keys of its own
Stem(fields) ==
    O(<< <<"id", W("a")>>, <<"name", W(BaseName)>>, <<"source", W("TCE")>>,
         <<"ac", Num(11)>>, <<"action", A(<<Slam>>)>>,
         <<"_versions", A(<<VariantSpec("Air", <<>>, << <<"ac", Num(13)>> >>)>>)>> >> \o fields)

StemFields == { <<>>, << <<"_note", A(<<W("kept")>>)>> >>, << <<"_isVariantTemplate", Bool(TRUE)>> >> }

\* the record defined as a copy
Graft(found, fields) ==
    O(<< <<"id", W("b")>>, <<"name", W("Elder Spirit")>>, <<"source", W("TCE")>>,
         <<"_copy", CopyBlock(found, FALSE)>> >> \o fields)

GraftActions == { <<>>, << <<"action", A(<<Bite>>)>> >>, << <<"action", A(<<Slam>>)>> >>,
                  << <<"action", A(<<>>)>> >> }
GraftReserved == { <<>>, << <<"_note", A(<<W("draft")>>)>> >>, << <<"_note", W("draft")>> >>,
                   << <<"_isVariantTemplate", Bool(FALSE)>> >> }

MergeStores ==
    { Store(<<Stem(sf), Graft(found, a \o r \o vs), Wolf>>, <<>>) :
        sf \in StemFields, found \in BOOLEAN, a \in GraftActions, r \in GraftReserved,
        vs \in VersionsOptions }

InitMerge == InitFrom(MergeStores)

SpecMerge == InitMerge /\ [][NextCopy]_vars

\* the base the stored record of the call names
BaseOfRecord ==
    FetchMonster(pre.heap, pre.creatures,
                 GetProp(pre.heap, PreField("_copy"), "name"),
                 GetProp(pre.heap, PreField("_copy"), "source"))
BaseField(key) == GetProp(pre.heap, BaseOfRecord, key)

\* a stored record with _copy was merged into its base
IsMerge == IsCopy /\ ~raised /\ Truthy(PreField("_copy")) /\ ~BaseMissing

\* the elements of the base followed by those of the record
BaseThenOwn(key) ==
    ElemViews(heap, GetProp(heap, ret.v, key))
      = ElemViews(pre.heap, BaseField(key)) \o ElemViews(pre.heap, PreField(key))

\* C24 as stated: every key that is an array in the base and in the record
\* holds, in the resolved record, the elements of the base followed by those
\* of the record
C24_ArraysConcatenated ==
    IsMerge =>
        \A key \in SeqRange(OwnKeys(pre.heap, PreRecord)) :
            (IsArray(pre.heap, BaseField(key)) /\ IsArray(pre.heap, PreField(key)))
            => IsArray(heap, GetProp(heap, ret.v, key)) /\ BaseThenOwn(key)

\* the keys of a record that the merge passes over
SkippedKeys == {"_mod", "_templates", "_isVariantTemplate", "_isVariant", "_note", "_root"}

\* C24 amended: the same for every key that the merge does not pass over,
\* that is every key without a leading underscore, _copy and _versions
C24_ArraysConcatenatedUnlessSkipped ==
    IsMerge =>
        \A key \in SeqRange(OwnKeys(pre.heap, PreRecord)) \ SkippedKeys :
            (IsArray(pre.heap, BaseField(key)) /\ IsArray(pre.heap, PreField(key)))
            => IsArray(heap, GetProp(heap, ret.v, key)) /\ BaseThenOwn(key)

\* a record whose only action is also the only action of its base was
\* merged: the resolved record holds that action twice
C24_Witness ==
    /\ IsMerge
    /\ IsArray(pre.heap, PreField("action"))
    /\ ElemViews(pre.heap, PreField("action")) = ElemViews(pre.heap, BaseField("action"))
    /\ Len(Elems(heap, GetProp(heap, ret.v, "action"))) = 2

\* C25: a key of the record that the merge passes over is, in the resolved
\* record, what the base had or absent, and the _copy and _versions of the
\* record are in the resolved record
C25_ReservedKeysSkipped ==
    IsMerge =>
        /\ \A key \in SeqRange(OwnKeys(pre.heap, PreRecord)) \cap SkippedKeys :
              View(heap, GetProp(heap, ret.v, key)) = View(pre.heap, BaseField(key))
        /\ View(heap, GetProp(heap, ret.v, "_copy")) = View(pre.heap, PreField("_copy"))
        /\ IsArray(pre.heap, PreField("_versions"))
             => /\ IsArray(heap, GetProp(heap, ret.v, "_versions"))
                /\ \A i \in 1..Len(Elems(pre.heap, PreField("_versions"))) :
                      \E j \in 1..Len(Elems(heap, GetProp(heap, ret.v, "_versions"))) :
                          ElemViews(heap, GetProp(heap, ret.v, "_versions"))[j]
                            = ElemViews(pre.heap, PreField("_versions"))[i]

\* a record with a note of its own and forks of its own was merged into a
\* base that has another note
C25_Witness ==
    /\ IsMerge
    /\ Truthy(PreField("_note")) /\ Truthy(BaseField("_note"))
    /\ View(pre.heap, PreField("_note")) # View(pre.heap, BaseField("_note"))
    /\ IsArray(pre.heap, PreField("_versions"))

----------------------------------------------------------------------------
(* addSkills on a record that already has a skill map.                     *)

\* a first call applied addSkills to a record whose skill is a plain object
IsAddSkills ==
    /\ IsMods /\ ~call.again /\ ~raised
    /\ Mode = W("addSkills")
    /\ IsRef(Before("skill")) /\ ~IsArray(pre.heap, Before("skill"))

SkillBefore(skill) == GetProp(pre.heap, Before("skill"), skill)
SkillAfter(skill) == GetProp(heap, After("skill"), skill)
SkillsBefore == SeqRange(OwnKeys(pre.heap, Before("skill")))
SkillsGiven == SeqRange(OwnKeys(pre.heap, GetProp(pre.heap, Operation, "skills")))

\* C26: every skill that the skill map already has keeps its value, a zero
\* bonus included, and every skill of the operation that the map does not
\* have is added
C26_ExistingSkillKept ==
    IsAddSkills =>
        /\ \A skill \in SkillsBefore : SkillAfter(skill) = SkillBefore(skill)
        /\ \A skill \in SkillsGiven \ SkillsBefore : SkillAfter(skill) # Undef

----------------------------------------------------------------------------
(* The speed normalizers of the data manager.  The text of a speed is      *)
(* written character by character.                                         *)

\* String(v) of a value that may be an array: the texts of the elements
\* joined by commas, nothing for null and undefined
RECURSIVE stringOf(_, _), joined(_, _)
stringOf(h, v) == IF IsArray(h, v) THEN joined(h, Elems(h, v)) ELSE Chars(v)
joined(h, el) ==
    IF el = <<>> THEN <<>>
    ELSE (IF Nullish(Head(el)) THEN <<>> ELSE stringOf(h, Head(el)))
         \o (IF Len(el) > 1 THEN <<",">> \o joined(h, Tail(el)) ELSE <<>>)

\* parseInt of a text whose digits start at position i, with the sign read
parsedInt(cs, i, sign) ==
    IF CharRun(cs, i) = 0 THEN NaN ELSE Num(sign * Value(SubSeq(cs, i, i + CharRun(cs, i) - 1)))

\* parseInt of a text from position i, the blanks before it skipped
signedInt(cs, i) ==
    IF At(cs, i, "-") THEN parsedInt(cs, i + 1, -1)
    ELSE IF At(cs, i, "+") THEN parsedInt(cs, i + 1, 1)
    ELSE parsedInt(cs, i, 1)

\* parseInt(text)
parseInt(cs) == signedInt(cs, 1 + RunFrom(cs, LAMBDA c : c = " ", 1))

\* speed.match(/(\d+)/): the position of the first digit, 0 without a match
firstDigit(cs) == FirstIndex(cs, LAMBDA c : IsDigit(c))

\* extractSpeedValue(speed) (lines 1101-1121)
extractSpeedValue(h, speed) ==
    IF speed.k = "num" THEN speed
    ELSE IF speed.k = "str" /\ firstDigit(speed.s) > 0
    THEN Num(Value(SubSeq(speed.s, firstDigit(speed.s),
                          firstDigit(speed.s) + CharRun(speed.s, firstDigit(speed.s)) - 1)))
    ELSE IF HasKey(h, speed, "number") THEN GetProp(h, speed, "number")
    ELSE Num(0)

\* return { walk: n }
walkOnly(h, n) == Alloc(h, ObjCell(<<"walk">>, <<n>>))

\* ['fly', 'swim', 'climb', 'burrow']
SpeedTypes == <<"fly", "swim", "climb", "burrow">>

\* lines 1072-1076: the walk of an object
extractWalk(h, result, speed) ==
    IF HasKey(h, speed, "walk")
    THEN PutProp(h, result, "walk", extractSpeedValue(h, GetProp(h, speed, "walk")))
    ELSE IF ~HasKey(h, speed, "valueOf") \/ Truthy(GetProp(h, speed, "valueOf"))
    THEN PutProp(h, result, "walk", Num(30))
    ELSE h

\* lines 1079-1083: the other movement types
RECURSIVE extractTypes(_, _, _, _)
extractTypes(h, result, speed, types) ==
    IF types = <<>> THEN h
    ELSE extractTypes(IF HasKey(h, speed, Head(types))
                      THEN PutProp(h, result, Head(types), extractSpeedValue(h, GetProp(h, speed, Head(types))))
                      ELSE h,
                      result, speed, Tail(types))

\* lines 1086-1090: if (!result.walk) result.walk = 30; return result
ensureWalk(h, result) ==
    [h |-> IF Truthy(GetProp(h, result, "walk")) THEN h ELSE PutProp(h, result, "walk", Num(30)),
     v |-> result]

extractedSpeed(h, speed) ==
    IF ~Truthy(speed) THEN walkOnly(h, Num(30))
    ELSE IF speed.k = "num" THEN walkOnly(h, speed)
    ELSE IF speed.k = "str"
    THEN walkOnly(h, IF parseInt(speed.s) = NaN THEN Num(30) ELSE parseInt(speed.s))
    ELSE IF IsRef(speed)
    THEN Bind(Alloc(h, ObjCell(<<>>, <<>>)),
              LAMBDA r : ensureWalk(extractTypes(extractWalk(r.h, r.v, speed), r.v, speed, SpeedTypes), r.v))
    ELSE walkOnly(h, Num(30))

\* extract5eToolsSpeed(monster) (lines 1051-1094)
extract5eToolsSpeed(h, monster) == extractedSpeed(h, GetProp(h, monster, "speed"))

\* typeof v === 'number' ? v : parseInt(v) || dflt
numberOr(h, v, dflt) ==
    IF v.k = "num" THEN v
    ELSE IF Truthy(parseInt(stringOf(h, v))) THEN parseInt(stringOf(h, v))
    ELSE Num(dflt)

\* lines 1638-1643: the walk of an object
simplerWalk(h, result, walk) ==
    PutProp(h, result, "walk", IF Truthy(walk) THEN numberOr(h, walk, 30) ELSE Num(30))

\* lines 1646-1651: the other movement types
RECURSIVE simplerTypes(_, _, _, _)
simplerTypes(h, result, speed, types) ==
    IF types = <<>> THEN h
    ELSE simplerTypes(IF Truthy(GetProp(h, speed, Head(types)))
                      THEN PutProp(h, result, Head(types), numberOr(h, GetProp(h, speed, Head(types)), 0))
                      ELSE h,
                      result, speed, Tail(types))

simplerSpeed(h, speed) ==
    IF ~Truthy(speed) THEN walkOnly(h, Num(30))
    ELSE IF speed.k = "num" THEN walkOnly(h, speed)
    ELSE IF IsRef(speed)
    THEN Bind(Alloc(h, ObjCell(<<>>, <<>>)),
              LAMBDA r : [h |-> simplerTypes(simplerWalk(r.h, r.v, GetProp(h, speed, "walk")),
                                             r.v, speed, SpeedTypes),
                          v |-> r.v])
    ELSE walkOnly(h, Num(30))

\* getSpeed(monster) (lines 1625-1657)
getSpeed(h, monster) == simplerSpeed(h, GetProp(h, monster, "speed"))

\* the speeds of the stored records, in feet
Paces == {0, 30, 40}

\* "N ft."
Feet(n) == Str(Digits(n) \o <<" ", "f", "t", ".">>)
\* {number: n, condition: "(hover)"}
Conditional(n) == O(<< <<"number", n>>, <<"condition", W("(hover)")>> >>)

ModeValues ==
    { Num(n) : n \in Paces } \cup { Feet(n) : n \in Paces } \cup { Conditional(Num(n)) : n \in Paces }
    \cup { Str(<<"f", "a", "s", "t">>), Str(<<"u", "p", " ", "t", "o", " ", "4", "0">>),
           Conditional(W("40")), O(<< <<"condition", W("(hover)")>> >>),
           Null, Bool(TRUE), A(<<Num(40)>>), Frac(1, 2) }
FlyValues == { Num(40), Feet(40), Conditional(Num(40)), Num(0) }

SpeedShapes ==
    { <<>> }
    \cup { << <<"speed", v>> >> : v \in ModeValues }
    \cup { << <<"speed", O(<< <<"walk", v>> >>)>> >> : v \in ModeValues }
    \cup { << <<"speed", O(<< <<"walk", v>>, <<"fly", w>> >>)>> >> : v \in ModeValues, w \in FlyValues }
    \cup { << <<"speed", O(<< <<"fly", w>>, <<"swim", w>> >>)>> >> : w \in FlyValues }

SpeedStores == { Store(<<Beast(f)>>, <<>>) : f \in SpeedShapes }

InitSpeed == InitFrom(SpeedStores)

\* the state after a call that returned a fresh object
FinishFresh(r, c) == Finish(r.h, c, r.v, NoDoc, FALSE, Snapshot)

GetSpeed ==
    /\ call = NoCall
    /\ \E i \in 1..Len(creatures) :
          FinishFresh(getSpeed(heap, creatures[i]), [op |-> "getSpeed", arg |-> i])

Extract5eToolsSpeed ==
    /\ call = NoCall
    /\ \E i \in 1..Len(creatures) :
          FinishFresh(extract5eToolsSpeed(heap, creatures[i]), [op |-> "extract5eToolsSpeed", arg |-> i])

NextSpeed == GetSpeed \/ Extract5eToolsSpeed

SpecSpeed == InitSpeed /\ [][NextSpeed]_vars

IsSpeed == call.op \in {"getSpeed", "extract5eToolsSpeed"}

\* the speed as written in the record
SpeedGiven == GetProp(pre.heap, pre.creatures[call.arg], "speed")

\* the integer a mode of one of the three shapes stands for, Undef for any
\* other shape
IsFeet(v) == v.k = "str" /\ \E n \in Paces : v = Feet(n)
ModeMeant(h, v) ==
    IF IsWhole(v) THEN v
    ELSE IF IsFeet(v) THEN Num(Value(SubSeq(v.s, 1, CharRun(v.s, 1))))
    ELSE IF IsPlainObject(h, v) THEN WholeOr(GetProp(h, v, "number"))
    ELSE Undef

\* the record has no speed, or a speed of one of the shapes of the dialect
AcceptedSpeed(h, speed) ==
    \/ speed = Undef
    \/ (~IsRef(speed) /\ ModeMeant(h, speed) # Undef)
    \/ /\ IsPlainObject(h, speed)
       /\ \A key \in SeqRange(OwnKeys(h, speed)) :
             /\ key \in {"walk"} \cup SeqRange(SpeedTypes)
             /\ ModeMeant(h, GetProp(h, speed, key)) # Undef

\* the walk the record gives, 30 when it gives none
WalkMeant(h, speed) ==
    IF speed = Undef THEN Num(30)
    ELSE IF ~IsRef(speed) THEN ModeMeant(h, speed)
    ELSE IF HasKey(h, speed, "walk") THEN ModeMeant(h, GetProp(h, speed, "walk"))
    ELSE Num(30)

\* C27: for a record without speed or with a speed of an accepted shape,
\* both speed normalizers return an object whose walk is the integer the
\* record gives, and 30 when the record gives none
C27_WalkAlwaysGiven ==
    (IsSpeed /\ AcceptedSpeed(pre.heap, SpeedGiven))
    => /\ IsPlainObject(heap, ret.v)
       /\ GetProp(heap, ret.v, "walk") = WalkMeant(pre.heap, SpeedGiven)

----------------------------------------------------------------------------
(* Following the base entry of a fork list.                                *)

\* data-variant="" of the base entry (line 4320)
BaseVariant == Str(<<>>)

\* the request the base entry of the fork list just returned stands for:
\* its data-id is the id of the record, which is the id that was asked for
FollowBaseEntry ==
    /\ IsDisplay /\ ~raised /\ HasBase(ret.d)
    /\ "from" \notin DOMAIN call
    /\ \E pv \in Flags :
          FinishDocument(displayCreatureDetails(heap, creatures, call.id,
                                                [variant |-> BaseVariant, processVariants |-> pv]),
                         [op |-> "displayCreatureDetails", id |-> call.id,
                          options |-> [variant |-> BaseVariant, processVariants |-> pv],
                          from |-> "base entry"])

NextFollow == DisplayCreatureDetails \/ FollowBaseEntry

SpecFollow == Init /\ [][NextFollow]_vars

IsFollowed == IsDisplay /\ "from" \in DOMAIN call

\* C28: the fork list of a record with forks that is not template-only
\* offers a base entry, and the request that entry stands for is answered
\* with the stat block of the base record, not with the fork list again
C28_BaseEntryShowsBase ==
    /\ (/\ IsDisplay /\ ~IsFollowed /\ StoredAt # 0 /\ ~raised
        /\ ~Truthy(PreField("_copy"))
        /\ Len(Versions(pre.heap, PreRecord)) > 0
        /\ ~Truthy(PreField("_isVariantTemplate"))
        /\ NoSelection)
       => HasBase(ret.d)
    /\ IsFollowed
       => /\ ret.d.doc = "statblock"
          /\ ret.d.name = View(pre.heap, PreField("name"))

----------------------------------------------------------------------------
(* The data cache of the data manager.  The heap holds the dataCache       *)
(* object, the only root of the store; texts are written character by      *)
(* character.  The IndexedDB store and localStorage are not kept: a call   *)
(* on the database either succeeds or fails.  Of a record made from a      *)
(* monster the fields name, source, type, size, cr, ac, speed and id are   *)
(* kept; the monsters of the files have no hit points, abilities, actions  *)
(* or traits, for which the record would hold the defaults.                *)

Text(w) == Str(w)
UpperCase == <<"A", "B", "C", "D", "E", "F", "G", "H", "I", "J", "K", "L", "M",
               "N", "O", "P", "Q", "R", "S", "T", "U", "V", "W", "X", "Y", "Z">>
LowerCase == <<"a", "b", "c", "d", "e", "f", "g", "h", "i", "j", "k", "l", "m",
               "n", "o", "p", "q", "r", "s", "t", "u", "v", "w", "x", "y", "z">>

\* text.toLowerCase()
lowerChar(c) == IF \E i \in 1..26 : UpperCase[i] = c THEN LowerCase[CHOOSE i \in 1..26 : UpperCase[i] = c] ELSE c
toLowerCase(cs) == [i \in 1..Len(cs) |-> lowerChar(cs[i])]

\* v.toLowerCase(): a TypeError unless v is a text
lowered(v) == IF v.k = "str" THEN [v |-> Str(toLowerCase(v.s)), err |-> FALSE] ELSE [v |-> Undef, err |-> TRUE]

\* text.replace(/[^a-z0-9]/g, '-')
dashed(cs) == [i \in 1..Len(cs) |-> IF cs[i] \in SeqRange(LowerCase) \/ IsDigit(cs[i]) THEN cs[i] ELSE "-"]

\* the property key a text is
RECURSIVE KeyText(_)
KeyText(cs) == IF cs = <<>> THEN "" ELSE Head(cs) \o KeyText(Tail(cs))

\* the metadata of lines 1773-1777 and 23-27
FreshMetadata ==
    O(<< <<"version", Text(<<"0", ".", "1", ".", "0">>)>>, <<"lastUpdated", Null>>,
         <<"creatureCount", Num(0)>> >>)

\* dataCache as the module defines it (lines 22-31)
DataCache ==
    O(<< <<"metadata", FreshMetadata>>, <<"creatures", A(<<>>)>>,
         <<"creaturesByType", O(<<>>)>>, <<"creaturesByCR", O(<<>>)>> >>)

\* obj[key] = a fresh value written as the literal
PutLoaded(h, obj, key, literal) == Bind(Load(h, literal), LAMBDA r : PutProp(r.h, obj, key, r.v))

\* resetDataCache() (lines 1769-1778)
resetDataCache(h, cache) ==
    PutLoaded(PutLoaded(PutLoaded(PutLoaded(h, cache, "creatures", A(<<>>)),
                                  cache, "creaturesByType", O(<<>>)),
                        cache, "creaturesByCR", O(<<>>)),
              cache, "metadata", FreshMetadata)

\* new Date().toISOString(): the time of the call
Now == Text(<<"n", "o", "w">>)

Held(h, cache) == Elems(h, GetProp(h, cache, "creatures"))

\* lines 435-436 and 518-519
countCreatures(h, cache) ==
    PutProp(PutProp(h, GetProp(h, cache, "metadata"), "lastUpdated", Now),
            GetProp(h, cache, "metadata"), "creatureCount", Num(Len(Held(h, cache))))

\* getData() (lines 1830-1837)
getData(h, cache) ==
    [version |-> GetProp(h, GetProp(h, cache, "metadata"), "version"),
     lastUpdated |-> GetProp(h, GetProp(h, cache, "metadata"), "lastUpdated"),
     creatureCount |-> GetProp(h, GetProp(h, cache, "metadata"), "creatureCount"),
     isLoaded |-> GetProp(h, GetProp(h, cache, "metadata"), "creatureCount").n > 0]

\* if (!table[key]) table[key] = []; table[key].push(creature)
pushUnder(h, table, key, creature) ==
    IF Truthy(GetProp(h, table, key))
    THEN [h EXCEPT ![GetProp(h, table, key).a].el = Append(@, creature)]
    ELSE Bind(Alloc(h, ArrCell(<<creature>>)), LAMBDA a : PutProp(a.h, table, key, a.v))

\* dataCache.creatures.push(creature) and the update of the cache by type
pushCreature(h, cache, creature) ==
    pushUnder([h EXCEPT ![GetProp(h, cache, "creatures").a].el = Append(@, creature)],
              GetProp(h, cache, "creaturesByType"),
              KeyText(stringOf(h, GetProp(h, creature, "type"))), creature)

\* the update of the cache by rating: creature.cr.toString() is a TypeError
\* when the record has no cr
pushByCR(h, cache, creature) ==
    IF Nullish(GetProp(h, creature, "cr")) THEN Throw(h)
    ELSE Ok(pushUnder(h, GetProp(h, cache, "creaturesByCR"),
                      KeyText(stringOf(h, GetProp(h, creature, "cr"))), creature))

\* lines 781-795, 859-873 and 2094-2106
addCreature(h, cache, creature) == pushByCR(pushCreature(h, cache, creature), cache, creature)

ValidSizes == {Text(<<c>>) : c \in {"T", "S", "M", "L", "H", "G"}}

\* the test of monster.cr of lines 1500-1519
validRating(h, cr) ==
    IF cr.k = "str" THEN cr \in {Text(<<"0">>), Eighth, Quarter, Half} \/ parseFloat(cr.s) # NaN
    ELSE IF TypeofObject(cr) /\ cr.k # "null" /\ ~Truthy(GetProp(h, cr, "cr")) THEN FALSE
    ELSE cr.k = "num" \/ TypeofObject(cr)

\* validateMonsterData(monster) (lines 1471-1523)
validateMonsterData(h, monster) ==
    /\ Truthy(GetProp(h, monster, "name")) /\ GetProp(h, monster, "name").k = "str"
    /\ Truthy(GetProp(h, monster, "type"))
    /\ Truthy(GetProp(h, monster, "size"))
         => IF GetProp(h, monster, "size").k = "str" THEN GetProp(h, monster, "size") \in ValidSizes
            ELSE IsArray(h, GetProp(h, monster, "size"))
    /\ GetProp(h, monster, "cr") # Undef => validRating(h, GetProp(h, monster, "cr"))

\* x || dflt
OrElse(x, dflt) == IF Truthy(x) THEN x ELSE dflt

\* getCreatureType(monster) (lines 1531-1538)
getCreatureType(h, monster) ==
    Bind(GetProp(h, monster, "type"), LAMBDA type :
        IF type.k = "str" THEN lowered(type)
        ELSE IF type.k = "null" THEN [v |-> Undef, err |-> TRUE]
        ELSE IF IsRef(type) /\ Truthy(GetProp(h, type, "type")) THEN lowered(GetProp(h, type, "type"))
        ELSE [v |-> Text(<<"u", "n", "k", "n", "o", "w", "n">>), err |-> FALSE])

\* extract5eToolsType(monster) (lines 890-911)
extract5eToolsType(h, monster) ==
    Bind(GetProp(h, monster, "type"), LAMBDA type :
        IF type.k = "str" /\ Truthy(type) THEN lowered(type)
        ELSE IF IsArray(h, type) THEN lowered(Pick(Elems(h, type), 1))
        ELSE IF IsRef(type) /\ Truthy(GetProp(h, type, "type")) THEN lowered(GetProp(h, type, "type"))
        ELSE IF IsRef(type) /\ Truthy(GetProp(h, type, "value")) THEN lowered(GetProp(h, type, "value"))
        ELSE [v |-> Text(<<"u", "n", "k", "n", "o", "w", "n">>), err |-> FALSE])

\* extract5eToolsSize(monster) (lines 919-931)
extract5eToolsSize(h, monster) ==
    Bind(GetProp(h, monster, "size"), LAMBDA size :
        IF ~Truthy(size) THEN Text(<<"M">>)
        ELSE IF size.k = "str" THEN size
        ELSE IF IsArray(h, size) THEN Pick(Elems(h, size), 1)
        ELSE Text(<<"M">>))

\* `${monster.name.toLowerCase().replace(/[^a-z0-9]/g, '-')}-${monster.source || 'unk'}`
creatureId(h, monster) ==
    Str(dashed(toLowerCase(GetProp(h, monster, "name").s)) \o <<"-">>
        \o stringOf(h, OrElse(GetProp(h, monster, "source"), Text(<<"u", "n", "k">>))))

CreatureKeys == <<"name", "source", "type", "size", "cr", "ac", "speed", "id">>

\* the record of lines 764-778, made of the values of its fields
standardCreature(h, monster, type, ac, speed) ==
    IF type.err \/ ac.err THEN Raise(h)
    ELSE Bind(Alloc(speed.h, ObjCell(CreatureKeys,
                   << GetProp(h, monster, "name"),
                      OrElse(GetProp(h, monster, "source"), Text(<<"U", "n", "k", "n", "o", "w", "n">>)),
                      type.v,
                      OrElse(GetProp(h, monster, "size"), Text(<<"M">>)),
                      getChallengeRating(h, monster),
                      ac.v, speed.v, creatureId(h, monster) >>)),
              LAMBDA c : Return(c.h, c.v))

\* the record of lines 831-856
toolsCreature(h, monster, type, speed) ==
    IF GetProp(h, monster, "name").k # "str" \/ type.err THEN Raise(h)
    ELSE Bind(Alloc(speed.h, ObjCell(CreatureKeys \o <<"sourceFormat">>,
                   << GetProp(h, monster, "name"),
                      OrElse(GetProp(h, monster, "source"), Text(<<"U", "n", "k", "n", "o", "w", "n">>)),
                      type.v,
                      extract5eToolsSize(h, monster),
                      extract5eToolsCR(h, monster),
                      extract5eToolsAC(h, monster), speed.v, creatureId(h, monster),
                      Text(<<"5", "e", "T", "o", "o", "l", "s">>) >>)),
              LAMBDA c : Return(c.h, c.v))

\* the body of the forEach of processMonsterData (lines 755-802) and of
\* process5eToolsMonsterData (lines 822-880): a monster that is refused or
\* that makes the body throw leaves the cache as it was
processMonster(h, cache, monster, tools) ==
    IF Nullish(monster) THEN (IF tools THEN Ok(h) ELSE Throw(h))
    ELSE IF tools /\ ~Truthy(GetProp(h, monster, "name")) THEN Ok(h)
    ELSE IF ~tools /\ ~validateMonsterData(h, monster) THEN Ok(h)
    ELSE Bind(IF tools
              THEN toolsCreature(h, monster, extract5eToolsType(h, monster), extract5eToolsSpeed(h, monster))
              ELSE standardCreature(h, monster, getCreatureType(h, monster), getArmorClass(h, monster),
                                    getSpeed(h, monster)),
              LAMBDA c : IF c.err THEN Ok(h)
                         ELSE Ok(addCreature(c.h, cache, c.v).h))

\* monsters.forEach(...)
RECURSIVE processMonsters(_, _, _, _)
processMonsters(h, cache, monsters, tools) ==
    IF monsters = <<>> THEN Ok(h)
    ELSE Bind(processMonster(h, cache, Head(monsters), tools),
              LAMBDA r : IF r.err THEN r ELSE processMonsters(r.h, cache, Tail(monsters), tools))

\* the tests of is5eToolsFormat on the first monster (lines 718-736), for
\* a monster without actions
is5eToolsFormat(h, firstMonster) ==
    \/ IsArray(h, GetProp(h, firstMonster, "size"))
    \/ Truthy(GetProp(h, firstMonster, "senseTags"))
    \/ Truthy(GetProp(h, firstMonster, "damageTags"))
    \/ IsArray(h, GetProp(h, firstMonster, "ac"))

\* a file: whether its name ends in .json, whether its text parses, and
\* the value the text stands for
File(json, parses, data) == [json |-> json, parses |-> parses, data |-> data]

\* the onload handler of processJSONFile on the parsed text (lines 670-698)
processParsed(h, cache, monster) ==
    IF ~Truthy(monster) \/ ~IsArray(h, monster) THEN Ok(h)
    ELSE IF Len(Elems(h, monster)) > 0 /\ Nullish(Elems(h, monster)[1]) THEN Throw(h)
    ELSE processMonsters(h, cache, Elems(h, monster),
                         Len(Elems(h, monster)) > 0 /\ is5eToolsFormat(h, Elems(h, monster)[1]))

\* processJSONFile(file) (lines 666-706)
processJSONFile(h, cache, file) ==
    IF ~file.parses THEN Throw(h)
    ELSE Bind(Load(h, file.data), LAMBDA j : processParsed(j.h, cache, GetProp(j.h, j.v, "monster")))

\* the loop of handleFileUpload over the files (lines 416-432)
RECURSIVE processFiles(_, _, _)
processFiles(h, cache, files) ==
    IF files = <<>> THEN Ok(h)
    ELSE IF ~Head(files).json THEN processFiles(h, cache, Tail(files))
    ELSE Bind(processJSONFile(h, cache, Head(files)),
              LAMBDA r : IF r.err THEN r ELSE processFiles(r.h, cache, Tail(files)))

\* what the calls on the database do
DatabaseOutcomes == {"done", "clearing fails", "storing fails"}

\* the last steps of handleFileUpload and loadSampleData: the metadata, the
\* save and the result (lines 435-449 and 518-532)
saved(h, cache, db) ==
    IF db = "storing fails" THEN Raise(countCreatures(h, cache))
    ELSE Bind(Load(countCreatures(h, cache),
                   O(<< <<"success", Bool(TRUE)>>, <<"creatures", Num(Len(Held(h, cache)))>> >>)),
              LAMBDA r : Return(r.h, r.v))

\* handleFileUpload(files) (lines 392-462)
handleFileUpload(h, cache, files, db) ==
    IF files = <<>> THEN Raise(h)
    ELSE IF db = "clearing fails" THEN Raise(resetDataCache(h, cache))
    ELSE Bind(processFiles(resetDataCache(h, cache), cache, files),
              LAMBDA r : IF r.err THEN Raise(r.h) ELSE saved(r.h, cache, db))

\* the body of the loop of loadSampleData (lines 491-514): a file that
\* cannot be fetched or that makes the processing throw is skipped
processFetched(h, cache, fetched) ==
    IF ~fetched.parses THEN h
    ELSE Bind(Load(h, fetched.data), LAMBDA j :
            IF Truthy(GetProp(j.h, j.v, "monster")) /\ IsArray(j.h, GetProp(j.h, j.v, "monster"))
            THEN processMonsters(j.h, cache, Elems(j.h, GetProp(j.h, j.v, "monster")), FALSE).h
            ELSE h)

RECURSIVE processSamples(_, _, _)
processSamples(h, cache, samples) ==
    IF samples = <<>> THEN h
    ELSE processSamples(processFetched(h, cache, Head(samples)), cache, Tail(samples))

\* loadSampleData() (lines 468-537), samples what the fetches return
loadSampleData(h, cache, samples, db) ==
    IF db = "clearing fails" THEN Raise(resetDataCache(h, cache))
    ELSE saved(processSamples(resetDataCache(h, cache), cache, samples), cache, db)

\* clearData() (lines 1990-2008)
clearData(h, cache, db) == Return(resetDataCache(h, cache), Bool(db # "clearing fails"))

\* lines 2078-2080: the metadata of the imported data
importMetadata(h, metadata, given, list) ==
    PutProp(PutProp(PutProp(h, metadata, "version",
                            OrElse(GetProp(h, given, "version"), Text(<<"0", ".", "1", ".", "0">>))),
                    metadata, "lastUpdated", OrElse(GetProp(h, given, "lastUpdated"), Now)),
            metadata, "creatureCount", Num(Len(Elems(h, list))))

\* the forEach of lines 2086-2109
RECURSIVE importCreatures(_, _, _)
importCreatures(h, cache, list) ==
    IF list = <<>> THEN Ok(h)
    ELSE IF Nullish(Head(list)) THEN Throw(h)
    ELSE IF \/ ~Truthy(GetProp(h, Head(list), "id"))
            \/ ~Truthy(GetProp(h, Head(list), "name"))
            \/ ~Truthy(GetProp(h, Head(list), "type"))
    THEN importCreatures(h, cache, Tail(list))
    ELSE Bind(addCreature(h, cache, Head(list)),
              LAMBDA r : IF r.err THEN r ELSE importCreatures(r.h, cache, Tail(list)))

\* the import of parsed data that passed the test of line 2067
imported(h, cache, jsonData, db) ==
    Bind(importCreatures(importMetadata(h, GetProp(h, cache, "metadata"),
                                        GetProp(h, jsonData, "metadata"),
                                        GetProp(h, jsonData, "creatures")),
                         cache, Elems(h, GetProp(h, jsonData, "creatures"))),
         LAMBDA r : IF r.err \/ db = "storing fails" THEN Raise(r.h)
                    ELSE Bind(Load(r.h, O(<< <<"success", Bool(TRUE)>>,
                                             <<"validCreatures", Num(Len(Held(r.h, cache)))>> >>)),
                              LAMBDA d : Return(d.h, d.v)))

\* importData(file) (lines 2058-2133)
importData(h, cache, file, db) ==
    IF ~file.parses THEN Raise(h)
    ELSE Bind(Load(h, file.data), LAMBDA j :
            IF \/ ~Truthy(GetProp(j.h, j.v, "metadata"))
               \/ ~Truthy(GetProp(j.h, j.v, "creatures"))
               \/ ~IsArray(j.h, GetProp(j.h, j.v, "creatures"))
            THEN Raise(h)
            ELSE IF db = "clearing fails" THEN Raise(resetDataCache(h, cache))
            ELSE imported(resetDataCache(j.h, cache), cache, j.v, db))

\* most monsters of a file
MaxMonsters == 2

Owl ==
    O(<< <<"name", Text(<<"O", "w", "l">>)>>, <<"source", Text(<<"M", "M">>)>>,
         <<"type", Text(<<"B", "e", "a", "s", "t">>)>>, <<"size", Text(<<"T">>)>>,
         <<"cr", Quarter>>, <<"ac", Num(11)>>, <<"speed", O(<< <<"walk", Num(5)>>, <<"fly", Num(60)>> >>)>> >>)
Rat == O(<< <<"name", Text(<<"R", "a", "t">>)>>, <<"cr", Num(0)>> >>)
Ape ==
    O(<< <<"name", Text(<<"G", "i", "a", "n", "t", " ", "A", "p", "e">>)>>,
         <<"type", Text(<<"b", "e", "a", "s", "t">>)>>, <<"ac", A(<<Null>>)>> >>)
Elk ==
    O(<< <<"name", Text(<<"E", "l", "k">>)>>, <<"source", Text(<<"M", "M">>)>>,
         <<"type", O(<< <<"type", Text(<<"b", "e", "a", "s", "t">>)>> >>)>>,
         <<"size", A(<<Text(<<"L">>)>>)>>, <<"cr", O(<< <<"cr", Quarter>> >>)>>,
         <<"ac", A(<<Num(10)>>)>>, <<"speed", Num(50)>> >>)
Imp == O(<< <<"name", Text(<<"I", "m", "p">>)>>, <<"type", Num(5)>>, <<"size", Text(<<"X">>)>> >>)
Monsters == {Owl, Rat, Ape, Elk, Imp, Null}

Bestiary(monsters) == File(TRUE, TRUE, O(<< <<"monster", A(monsters)>> >>))
Unreadable == File(TRUE, FALSE, Null)
Files ==
    { Bestiary(ms) : ms \in SeqsUpTo(Monsters, MaxMonsters) }
    \cup { File(TRUE, TRUE, O(<< <<"spell", A(<<>>)>> >>)), Unreadable, File(FALSE, TRUE, Null) }
SecondFiles == { Bestiary(<<Owl>>), Unreadable, File(FALSE, TRUE, Null) }
Uploads ==
    { <<>> } \cup { <<f>> : f \in Files } \cup { <<f, g>> : f \in SecondFiles, g \in SecondFiles }

\* what the fetch of a sample file gives
Samples == { Bestiary(<<Owl, Rat>>), Unreadable }
\* the four fetches of SAMPLE_DATA_FILES, of which at most MaxMonsters give a
\* bestiary
SampleRuns ==
    { run \in [1..4 -> Samples] : Cardinality({i \in 1..4 : run[i].parses}) <= MaxMonsters }

\* records of an export: one that is held, one without type, one without cr
Kept(id, cr) ==
    O(<< <<"id", Text(<<id>>)>>, <<"name", Text(<<"O", "w", "l">>)>>,
         <<"type", Text(<<"b", "e", "a", "s", "t">>)>> >> \o cr)
Exported ==
    { Kept("1", << <<"cr", Num(0)>> >>), Kept("2", << <<"cr", Frac(1, 4)>> >>), Kept("3", <<>>),
      O(<< <<"id", Text(<<"4">>)>>, <<"name", Text(<<"R", "a", "t">>)>> >>), Null }
Export(metadata, list) ==
    File(TRUE, TRUE, O(<< <<"metadata", metadata>>, <<"creatures", list>> >>))
Imports ==
    { Export(O(<< <<"version", Text(<<"2">>)>> >>), A(cs)) : cs \in SeqsUpTo(Exported, MaxMonsters) }
    \cup { Export(Bool(TRUE), A(<<Kept("1", << <<"cr", Num(0)>> >>)>>)),
           Export(Null, A(<<>>)), Export(O(<<>>), Num(1)), Unreadable }

InitCache == InitFrom({Store(<<DataCache>>, <<>>)})

\* the data cache, the root of the store
Cache == creatures[1]

\* the state after a call on the cache: the cache it leaves and what it
\* returned; the claims on the cache are about the state a call leaves,
\* and pre stays as it is
FinishCache(r, c) == Finish(r.h, c, r.v, NoDoc, r.err, pre)

HandleFileUpload ==
    \E files \in Uploads, db \in DatabaseOutcomes :
        FinishCache(handleFileUpload(heap, Cache, files, db), [op |-> "handleFileUpload"])

LoadSampleData ==
    \E samples \in SampleRuns, db \in DatabaseOutcomes :
        FinishCache(loadSampleData(heap, Cache, samples, db), [op |-> "loadSampleData"])

ImportData ==
    \E file \in Imports, db \in DatabaseOutcomes :
        FinishCache(importData(heap, Cache, file, db), [op |-> "importData"])

ClearData ==
    \E db \in DatabaseOutcomes :
        FinishCache(clearData(heap, Cache, db), [op |-> "clearData"])

NextCache == HandleFileUpload \/ LoadSampleData \/ ImportData \/ ClearData

SpecCache == InitCache /\ [][NextCache]_vars

\* a call on the cache has completed
Completed == call.op \in {"handleFileUpload", "loadSampleData", "importData", "clearData"} /\ ~raised

\* C29: after a completed handleFileUpload, loadSampleData, importData or
\* clearData the count of the metadata is the number of records held, and
\* getData().isLoaded tells whether a record is held
C29_CountIsHeld ==
    Completed =>
        /\ getData(heap, Cache).creatureCount = Num(Len(Held(heap, Cache)))
        /\ getData(heap, Cache).isLoaded <=> Len(Held(heap, Cache)) > 0

----------------------------------------------------------------------------
(* The favorites of the creature list.  The heap holds the favorites       *)
(* array, the only root of the store.  The copy that saveFavorites writes  *)
(* to localStorage and the menu that renderFavorites draws are not kept;   *)
(* the sort that renderFavorites runs once the records have been fetched   *)
(* is a step of its own.                                                   *)

\* favorites.findIndex(fav => fav.creatureId === creatureId), 0 for -1
favoriteIndex(h, favorites, id) ==
    FirstIndex(Elems(h, favorites), LAMBDA fav : GetProp(h, fav, "creatureId") = id)

\* addOrUpdateFavorite that adds an entry whatever the list holds
addOrUpdateFavorite_AlwaysPush(h, favorites, id, name, count) ==
    Bind(Alloc(h, ObjCell(<<"creatureId", "creatureName", "count", "addedAt">>,
                          <<id, name, count, Now>>)),
         LAMBDA r : [r.h EXCEPT ![favorites.a].el = Append(@, r.v)])

\* addOrUpdateFavorite(creatureId, creatureName, count) (lines 2846-2878)
addOrUpdateFavorite(h, favorites, id, name, count) ==
    IF favoriteIndex(h, favorites, id) = 0
    THEN Bind(Alloc(h, ObjCell(<<"creatureId", "creatureName", "count", "addedAt">>,
                               <<id, name, count, Now>>)),
              LAMBDA r : [r.h EXCEPT ![favorites.a].el = Append(@, r.v)])
    ELSE PutProp(h, Elems(h, favorites)[favoriteIndex(h, favorites, id)], "count", count)

\* s without its element at position i
Without(s, i) == SubSeq(s, 1, i - 1) \o SubSeq(s, i + 1, Len(s))

\* removeFavorite(creatureId) (lines 2884-2911)
removeFavorite(h, favorites, id) ==
    IF favoriteIndex(h, favorites, id) # 0
    THEN [h EXCEPT ![favorites.a].el = Without(@, favoriteIndex(h, favorites, id))]
    ELSE h

\* the records getAllCreatures gives, by id, in the order of their names
KnownCreatures == <<W("b"), W("a")>>
nameRank(h, fav) == FirstIndex(KnownCreatures, LAMBDA id : id = GetProp(h, fav, "creatureId"))

\* a stable sort by the names of the records
RECURSIVE sortedByName(_, _), placed(_, _, _)
placed(h, fav, s) ==
    IF s = <<>> THEN <<fav>>
    ELSE IF nameRank(h, fav) <= nameRank(h, Head(s)) THEN <<fav>> \o s
    ELSE <<Head(s)>> \o placed(h, fav, Tail(s))
sortedByName(h, s) == IF s = <<>> THEN <<>> ELSE placed(h, Head(s), sortedByName(h, Tail(s)))

\* the orders favorites.sort can leave (lines 2307-2313): the comparator
\* gives 0 for a favorite whose record is not found, and with a comparator
\* that is not consistent the order is up to the implementation
sortOutcomes(h, s) ==
    IF \A i \in 1..Len(s) : nameRank(h, s[i]) # 0 THEN {sortedByName(h, s)}
    ELSE { [i \in 1..Len(s) |-> s[p[i]]] : p \in {q \in [1..Len(s) -> 1..Len(s)] : \A i, j \in 1..Len(s) : i # j => q[i] # q[j]} }

\* highest count of a favorite
MaxCount == 2

FavoriteIds == {W("a"), W("b"), W("c")}

InitFavorites == InitFrom({Store(<<A(<<>>)>>, <<>>)})

\* let favorites = [] (line 1580), the root of the store
Favorites == creatures[1]

FinishFavorites(h, c) == Finish(h, c, Undef, NoDoc, FALSE, Snapshot)

AddOrUpdateFavorite ==
    \E id \in FavoriteIds, count \in 1..MaxCount :
        FinishFavorites(addOrUpdateFavorite(heap, Favorites, id, Str(<<"creature">> \o id.s), Num(count)),
                        [op |-> "addOrUpdateFavorite", id |-> id, count |-> Num(count)])

RemoveFavorite ==
    \E id \in FavoriteIds :
        FinishFavorites(removeFavorite(heap, Favorites, id), [op |-> "removeFavorite", id |-> id])

\* the callback of renderFavorites, after a call that left favorites
SortFavorites ==
    /\ call.op \in {"addOrUpdateFavorite", "removeFavorite"}
    /\ Len(Elems(heap, Favorites)) > 0
    /\ \E order \in sortOutcomes(heap, Elems(heap, Favorites)) :
          FinishFavorites([heap EXCEPT ![Favorites.a].el = order], [op |-> "sort"])

NextFavorites == AddOrUpdateFavorite \/ RemoveFavorite \/ SortFavorites

SpecFavorites == InitFavorites /\ [][NextFavorites]_vars

\* the entries of the list, and those with the given id
Entries(h, list) == {View(h, Elems(h, list)[i]) : i \in 1..Len(Elems(h, list))}
EntriesOf(h, list, id) == {e \in Entries(h, list) : e.o.creatureId = id}
Positions(h, list, id) == {i \in 1..Len(Elems(h, list)) : GetProp(h, Elems(h, list)[i], "creatureId") = id}
FavoritesBefore == pre.creatures[1]

\* C30: the list holds at most one entry for an id; after an add or update
\* the entry of the id has the count given and the other entries are as
\* before; after a removal the id has no entry and the other entries are as
\* before; the sort keeps the entries
C30_OneEntryLatestCount ==
    /\ \A id \in FavoriteIds : Cardinality(Positions(heap, Favorites, id)) <= 1
    /\ call.op = "addOrUpdateFavorite"
         => /\ \E e \in EntriesOf(heap, Favorites, call.id) : e.o.count = call.count
            /\ \A id \in FavoriteIds \ {call.id} :
                  EntriesOf(heap, Favorites, id) = EntriesOf(pre.heap, FavoritesBefore, id)
    /\ call.op = "removeFavorite"
         => /\ EntriesOf(heap, Favorites, call.id) = {}
            /\ \A id \in FavoriteIds \ {call.id} :
                  EntriesOf(heap, Favorites, id) = EntriesOf(pre.heap, FavoritesBefore, id)
    /\ call.op = "sort" => Entries(heap, Favorites) = Entries(pre.heap, FavoritesBefore)

\* an id that had an entry was given another count, next to another entry
C30_Witness ==
    /\ call.op = "addOrUpdateFavorite"
    /\ \E e \in EntriesOf(pre.heap, FavoritesBefore, call.id) : e.o.count # call.count
    /\ Len(Elems(heap, Favorites)) = 2
    /\ \A e \in EntriesOf(heap, Favorites, call.id) : e.o.count = call.count

====
